---- MODULE Spec2Model ----
(***************************************************************************)
(* Verification model of the arkham-challenge repository.                  *)
(*                                                                         *)
(* Part I  (specification Spec): the serving API of src/arkham_api: the    *)
(*   GET /data read path with its process-local cache, the POST /refresh   *)
(*   pipeline (extraction, staging build, preview) and the two-rename      *)
(*   directory swap, all sharing one threading.Lock.                       *)
(* Part II (specification SpecConn): one run of the connector of           *)
(*   src/arkham_connector: pagination, incremental de-duplication, the     *)
(*   record cap, validation and the write of the raw dataset.              *)
(* Part III (specification SpecFetch): one call of the page fetcher with   *)
(*   its retries and backoff.                                              *)
(* Part IV (specification SpecModel): the star-schema builder, run on one  *)
(*   raw dataset.                                                          *)
(* Part V  (specification SpecView): the result of GET /data: the join     *)
(*   view, its filters, its order and its pages.                           *)
(* Part VI (specification SpecRaw): the raw dataset file shared by         *)
(*   concurrent refresh requests.                                          *)
(* Part VII (specification SpecFeed): one incremental connector run with   *)
(*   early stop and the same run without it, against one upstream.         *)
(***************************************************************************)
EXTENDS Integers, Sequences, FiniteSets, TLC

(* ------------------------------ bounds -------------------------------- *)
\* number of POST /refresh requests the process receives
MaxRefreshes == 2
\* number of GET /data requests the process receives
MaxReads == 2
\* file modification times are drawn from 1..MaxMtime
MaxMtime == 2
\* number of times a served file is rewritten in place
MaxTouches == 1
\* number of rows in the raw file a previous connector run left behind
MaxPrior == 2
\* number of pages with records the upstream serves in one connector run
MaxPages == 2
\* settings.max_retries is drawn from 0..MaxRetries
MaxRetries == 3
\* settings.retry_delay is drawn from 0..MaxDelay
MaxDelay == 2
\* the raw dataset's dates are days 1..MaxDay
MaxDay == 3
\* number of rows of the raw dataset
MaxRaw == 3
\* number of builds of the modeled tables from one raw dataset
MaxBuilds == 2
\* number of requests of both kinds served under fair scheduling
MaxLive == 3
\* number of rows of fact_outage
MaxFact == 3
\* GET /data asks for pages 1..MaxPage
MaxPage == 3
\* GET /data asks for page sizes 1..MaxLimit
MaxLimit == 2

(* ------------------------- PART I : serving API ------------------------ *)
VARIABLES
    lock,            \* app.state.lock: "free" or the request thread holding it
    cache,           \* app.state.cache
    serving,         \* the directory at settings.modeled_dir
    tmp,             \* staging directories .{name}.tmp-<uuid>, one per refresh request
    bak,             \* backup directories  .{name}.bak-<uuid>, one per refresh request
    pc,              \* position of every request thread
    rd,              \* get_data locals: the modeled files read so far
    rf,              \* refresh_data locals: request number, pending exception
    resp,            \* the response most recently sent
    nref,            \* refresh requests received so far
    nread,           \* read requests received so far
    ntouch,          \* rewrites of a served file so far
    served,          \* history: a serving directory has existed
    lastSwap,        \* history: the request whose swap completed last (0: none)
    sameMt,          \* history: the files installed by the last swap carry the
                     \* mtimes of the files they replaced
    rollbackFailed   \* history: some swap's rollback rename has failed

apiVars == <<lock, cache, serving, tmp, bak, pc, rd, rf, resp, nref, nread, ntouch,
             served, lastSwap, sameMt, rollbackFailed>>

Readers == {"r1", "r2"}
Refreshers == {"f1", "f2"}
Free == "free"

\* storage.MODELED_FILES: dim_plant, dim_date, fact_outage are files 1, 2, 3
NFiles == 3
Mtimes == 1..MaxMtime
\* build_modeled_tables writes the three files in one go: one clock reading
BuildStamps == {<<t, t, t>> : t \in Mtimes}

\* A directory holding the three modeled files: who built it (0: present before
\* the process started), the files' mtimes.
Absent == [ex |-> FALSE, by |-> 0, mt |-> <<0, 0, 0>>]
InitialDir == [ex |-> TRUE, by |-> 0, mt |-> <<1, 1, 1>>]
\* A staging directory as build_modeled_tables leaves it. Nothing reads the
\* mtimes of its files before it is renamed into the serving path, so the model
\* draws them at the rename (SwapRename2).
Staged(id) == [ex |-> TRUE, by |-> id, mt |-> <<0, 0, 0>>]

\* storage.Cache, and None
NoCache == [full |-> FALSE, mtimes |-> <<0, 0, 0>>, view |-> <<>>]

NoRefresh == [id |-> 0, err |-> "none"]
NoResp == [kind |-> "none", res |-> "none", err |-> "none",
           reloaded |-> FALSE, view |-> <<>>]
ReadResp(res, reloaded, view) ==
    [kind |-> "read", res |-> res, err |-> "none",
     reloaded |-> reloaded, view |-> view]
RefreshResp(res, err) ==
    [kind |-> "refresh", res |-> res, err |-> err,
     reloaded |-> FALSE, view |-> <<>>]

\* storage.modeled_mtimes: one st_mtime per modeled file
modeled_mtimes(dir) == dir.mt

\* the outage view built from the three files of a directory: one content tag
\* per file
Contents(dir) == <<dir.by, dir.by, dir.by>>

\* threading.Lock: entering a with block waits until the lock is free
NeverBlocks == TRUE
CanAcquire == lock = Free
AcquireNoWait(p) == lock' = p
Acquire(p) == CanAcquire /\ lock' = p
\* leaving the with block
ReleaseForgotten == lock' = lock
Release == lock' = Free

ApiInit ==
    /\ lock = Free
    /\ cache = NoCache
    /\ serving \in {Absent, InitialDir}
    /\ tmp = [i \in 1..MaxRefreshes |-> Absent]
    /\ bak = [i \in 1..MaxRefreshes |-> Absent]
    /\ pc = [p \in Readers \cup Refreshers |-> "idle"]
    /\ rd = [p \in Readers |-> <<>>]
    /\ rf = [f \in Refreshers |-> NoRefresh]
    /\ resp = NoResp
    /\ nref = 0
    /\ nread = 0
    /\ ntouch = 0
    /\ served = serving.ex
    /\ lastSwap = 0
    /\ sameMt = FALSE
    /\ rollbackFailed = FALSE

(* ------------------------------ GET /data ------------------------------ *)
\* The worker threads of one kind are interchangeable: a request is taken by
\* the first idle one.
Rank == [r1 |-> 1, r2 |-> 2, f1 |-> 1, f2 |-> 2]
FirstIdle(p, S) ==
    /\ pc[p] = "idle"
    /\ \A q \in S : pc[q] = "idle" => Rank[q] >= Rank[p]

\* a GET /data request arrives
ReadStart(p) ==
    /\ FirstIdle(p, Readers)
    /\ nread < MaxReads
    /\ nread' = nread + 1
    /\ pc' = [pc EXCEPT ![p] = "r_wait"]
    /\ UNCHANGED <<lock, cache, serving, tmp, bak, rd, rf, resp, nref, ntouch,
                   served, lastSwap, sameMt, rollbackFailed>>

\* the cache test of get_data: cache is None or cache.mtimes != mtimes
CacheStaleFactOnly(c, mtimes) == ~c.full \/ c.mtimes[NFiles] # mtimes[NFiles]
CacheStale(c, mtimes) == ~c.full \/ c.mtimes # mtimes

\* with app.state.lock: cache = app.state.cache; mtimes = modeled_mtimes(..);
\* then the cache test
ReadEnter(p) ==
    /\ pc[p] = "r_wait"
    /\ IF ~serving.ex
       THEN \* FileNotFoundError -> 404; the with block is left at once
            /\ CanAcquire
            /\ resp' = ReadResp("404", FALSE, <<>>)
            /\ pc' = [pc EXCEPT ![p] = "idle"]
            /\ UNCHANGED lock
       ELSE IF CacheStale(cache, modeled_mtimes(serving))
       THEN /\ Acquire(p)
            /\ pc' = [pc EXCEPT ![p] = "r_read"]
            /\ UNCHANGED resp
       ELSE \* cache hit: no modeled file is read; the with block is left at once
            /\ CanAcquire
            /\ resp' = ReadResp("ok", FALSE, cache.view)
            /\ pc' = [pc EXCEPT ![p] = "idle"]
            /\ UNCHANGED lock
    /\ UNCHANGED <<cache, serving, tmp, bak, rd, rf, nref, nread, ntouch,
                   served, lastSwap, sameMt, rollbackFailed>>

\* storage.read_modeled_tables: dim_plant, then dim_date
ReadFile(p) ==
    /\ pc[p] = "r_read"
    /\ Len(rd[p]) < NFiles - 1
    /\ IF serving.ex
       THEN /\ rd' = [rd EXCEPT ![p] = Append(@, serving.by)]
            /\ UNCHANGED <<pc, lock, resp>>
       ELSE \* the file is gone: the error leaves the with block
            /\ rd' = [rd EXCEPT ![p] = <<>>]
            /\ resp' = ReadResp("500", FALSE, <<>>)
            /\ pc' = [pc EXCEPT ![p] = "idle"]
            /\ Release
    /\ UNCHANGED <<cache, serving, tmp, bak, rf, nref, nread, ntouch,
                   served, lastSwap, sameMt, rollbackFailed>>

\* fact_outage is read, the view is built, the mtimes are taken again, the
\* cache entry is replaced and the lock is released
ReadLast(p) ==
    /\ pc[p] = "r_read"
    /\ Len(rd[p]) = NFiles - 1
    /\ IF serving.ex
       THEN LET view == Append(rd[p], serving.by) IN
            /\ cache' = [full |-> TRUE, mtimes |-> modeled_mtimes(serving), view |-> view]
            /\ resp' = ReadResp("ok", TRUE, view)
       ELSE /\ resp' = ReadResp("500", FALSE, <<>>)
            /\ UNCHANGED cache
    /\ rd' = [rd EXCEPT ![p] = <<>>]
    /\ pc' = [pc EXCEPT ![p] = "idle"]
    /\ Release
    /\ UNCHANGED <<serving, tmp, bak, rf, nref, nread, ntouch,
                   served, lastSwap, sameMt, rollbackFailed>>

(* ----------------------------- POST /refresh --------------------------- *)
\* a POST /refresh request arrives and enters run_refresh_build_tmp; its
\* uuid4 names are the request number
RefreshStartLocked(f) ==
    /\ FirstIdle(f, Refreshers)
    /\ nref < MaxRefreshes
    /\ nref' = nref + 1
    /\ rf' = [rf EXCEPT ![f] = [id |-> nref + 1, err |-> "none"]]
    /\ pc' = [pc EXCEPT ![f] = "staging"]
    /\ Acquire(f)
    /\ UNCHANGED <<cache, serving, tmp, bak, rd, resp, nread, ntouch,
                   served, lastSwap, sameMt, rollbackFailed>>
RefreshStart(f) ==
    /\ FirstIdle(f, Refreshers)
    /\ nref < MaxRefreshes
    /\ nref' = nref + 1
    /\ rf' = [rf EXCEPT ![f] = [id |-> nref + 1, err |-> "none"]]
    /\ pc' = [pc EXCEPT ![f] = "staging"]
    /\ UNCHANGED <<lock, cache, serving, tmp, bak, rd, resp, nread, ntouch,
                   served, lastSwap, sameMt, rollbackFailed>>

\* the handler's except clauses: the request ends with an error response
Fail(f, res, err) ==
    /\ resp' = RefreshResp(res, err)
    /\ rf' = [rf EXCEPT ![f] = NoRefresh]
    /\ pc' = [pc EXCEPT ![f] = "idle"]

\* run_refresh_build_tmp, the except clause around build_modeled_tables:
\* shutil.rmtree(tmp_dir, ignore_errors=True); raise
BuildFailedNoCleanup(f) ==
    /\ tmp' = [tmp EXCEPT ![rf[f].id] = Staged(rf[f].id)]
    /\ Fail(f, "500", "Build")
BuildFailed(f) ==
    /\ tmp' = [tmp EXCEPT ![rf[f].id] = Absent]
    /\ Fail(f, "500", "Build")

\* _run_connector_to: except SystemExit -> raise RuntimeError
Wrapped(exc) == IF exc = "SystemExit" THEN "RuntimeError" ELSE exc
\* refresh_data: except RuntimeError -> 400, except Exception -> 500
StatusOf(exc) == IF exc = "RuntimeError" THEN "400" ELSE "500"

\* run_refresh_build_tmp, none of it under the lock:
\*  - _run_connector_to: the connector returns, exits for want of an API key
\*    (SystemExit), raises PermissionError for a rejected key, or fails
\*    otherwise;
\*  - build_modeled_tables into the staging directory; on an exception the
\*    staging directory is removed and the error propagates (500);
\*  - the optional preview of the staged tables, outside the try block.
Stage(f) ==
    /\ pc[f] = "staging"
    /\ \E out \in {"staged", "nokey", "badkey", "extract", "build", "preview"} :
         CASE out = "staged" ->
                /\ tmp' = [tmp EXCEPT ![rf[f].id] = Staged(rf[f].id)]
                /\ pc' = [pc EXCEPT ![f] = "s_wait"]
                /\ UNCHANGED <<rf, resp>>
           [] out = "nokey" ->
                \* get_api_key exits: EIA_API_KEY is not set
                /\ Fail(f, StatusOf(Wrapped("SystemExit")), Wrapped("SystemExit"))
                /\ UNCHANGED tmp
           [] out = "badkey" ->
                \* fetch_page_with_retry raises: the upstream answers 401/403
                /\ Fail(f, StatusOf(Wrapped("PermissionError")),
                        Wrapped("PermissionError"))
                /\ UNCHANGED tmp
           [] out = "extract" ->
                /\ Fail(f, "500", "Extract")
                /\ UNCHANGED tmp
           [] out = "build" -> BuildFailed(f)
           [] out = "preview" ->
                \* _preview_modeled raises after the staging directory is built
                /\ tmp' = [tmp EXCEPT ![rf[f].id] = Staged(rf[f].id)]
                /\ Fail(f, "500", "Preview")
    /\ UNCHANGED <<lock, cache, serving, bak, rd, nref, nread, ntouch,
                   served, lastSwap, sameMt, rollbackFailed>>

\* with app.state.lock: atomic_replace_modeled_dir, first rename:
\* if dst_dir.exists(): dst_dir.rename(backup_dir)
SwapRename1(f) ==
    /\ pc[f] = "s_wait"
    /\ IF serving.ex
       THEN \/ /\ Acquire(f)
               /\ bak' = [bak EXCEPT ![rf[f].id] = serving]
               /\ serving' = Absent
               /\ pc' = [pc EXCEPT ![f] = "s_ren2"]
               /\ UNCHANGED <<rf, resp>>
            \/ \* the rename raises: no backup exists, the error propagates,
               \* the with block is left and the handler answers 500
               /\ CanAcquire
               /\ Fail(f, "500", "Rename1")
               /\ UNCHANGED <<serving, bak, lock>>
       ELSE /\ Acquire(f)
            /\ pc' = [pc EXCEPT ![f] = "s_ren2"]
            /\ UNCHANGED <<serving, bak, rf, resp>>
    /\ UNCHANGED <<cache, tmp, rd, nref, nread, ntouch, served, lastSwap, sameMt, rollbackFailed>>

\* atomic_replace_modeled_dir: src_dir.rename(dst_dir); on success the finally
\* clause removes the backup
SwapRename2(f) ==
    /\ pc[f] = "s_ren2"
    /\ \/ /\ ~serving.ex
          /\ tmp[rf[f].id].ex
          /\ \E st \in BuildStamps :
               /\ serving' = [tmp[rf[f].id] EXCEPT !.mt = st]
               /\ sameMt' = (bak[rf[f].id].ex /\ bak[rf[f].id].mt = st)
          /\ tmp' = [tmp EXCEPT ![rf[f].id] = Absent]
          /\ bak' = [bak EXCEPT ![rf[f].id] = Absent]
          /\ served' = TRUE
          /\ lastSwap' = rf[f].id
          /\ pc' = [pc EXCEPT ![f] = "s_inval"]
          /\ UNCHANGED rf
       \/ /\ rf' = [rf EXCEPT ![f].err = "Rename2"]
          /\ pc' = [pc EXCEPT ![f] = "s_rollback"]
          /\ UNCHANGED <<serving, tmp, bak, served, lastSwap, sameMt>>
    /\ UNCHANGED <<lock, cache, rd, resp, nref, nread, ntouch, rollbackFailed>>

\* backup_dir.rename(dst_dir)
RenameBackSkipped(f) == serving' = serving
RenameBack(f) == serving' = bak[rf[f].id]

\* the bare raise of the except clause: the exception being handled
RaisedAnew(f) == "Rollback"
Reraised(f) == rf[f].err

\* atomic_replace_modeled_dir: the except clause (rename the backup back,
\* re-raise) and the finally clause (remove the backup if it still exists);
\* the with block is left and the handler answers 500
SwapRollback(f) ==
    /\ pc[f] = "s_rollback"
    /\ IF bak[rf[f].id].ex /\ ~serving.ex
       THEN \/ /\ RenameBack(f)
               /\ Fail(f, "500", Reraised(f))
               /\ UNCHANGED rollbackFailed
            \/ \* the rollback rename raises in its turn
               /\ Fail(f, "500", "Rollback")
               /\ rollbackFailed' = TRUE
               /\ UNCHANGED serving
       ELSE /\ Fail(f, "500", Reraised(f))
            /\ UNCHANGED <<serving, rollbackFailed>>
    /\ bak' = [bak EXCEPT ![rf[f].id] = Absent]
    /\ Release
    /\ UNCHANGED <<cache, tmp, rd, nref, nread, ntouch, served, lastSwap, sameMt>>

\* app.state.cache = None
KeepCache == cache' = cache
Invalidate == cache' = NoCache

\* refresh_data: app.state.cache = None, then the with block ends
SwapInvalidate(f) ==
    /\ pc[f] = "s_inval"
    /\ Invalidate
    /\ Release
    /\ resp' = RefreshResp("200", "none")
    /\ rf' = [rf EXCEPT ![f] = NoRefresh]
    /\ pc' = [pc EXCEPT ![f] = "idle"]
    /\ UNCHANGED <<serving, tmp, bak, rd, nref, nread, ntouch,
                   served, lastSwap, sameMt, rollbackFailed>>

\* a modeled file of the serving directory is rewritten in place and gets a
\* later modification time (os.utime)
Touch(i) ==
    /\ serving.ex
    /\ ntouch < MaxTouches
    /\ ntouch' = ntouch + 1
    /\ \E m \in Mtimes :
         /\ m > serving.mt[i]
         /\ serving' = [serving EXCEPT !.mt[i] = m]
    /\ sameMt' = FALSE
    /\ UNCHANGED <<lock, cache, tmp, bak, pc, rd, rf, resp, nref, nread,
                   served, lastSwap, rollbackFailed>>

ApiNext ==
    \/ \E p \in Readers :
         ReadStart(p) \/ ReadEnter(p) \/ ReadFile(p) \/ ReadLast(p)
    \/ \E f \in Refreshers :
         \/ RefreshStart(f) \/ Stage(f)
         \/ SwapRename1(f) \/ SwapRename2(f) \/ SwapRollback(f)
         \/ SwapInvalidate(f)
    \/ \E i \in 1..NFiles : Touch(i)

(* ------------------------- PART II : connector ------------------------- *)
\* (specification SpecConn): one run of arkham_connector.runner.run_connector
\* against an upstream that answers each page request with any page.
VARIABLES
    settings,             \* ConnectorSettings, the entry point run and whether
                          \* EIA_API_KEY is set in the environment
    upstream,             \* which records the upstream can send: plain or edge
    output,               \* the raw parquet file at settings.output_file
    cpc,                  \* position of run_connector: start, loop, post, done
    existing_df,          \* run_connector locals
    existing_keys,
    existing_max_period,
    incremental_active,
    all_records,
    new_records,
    current_offset,
    nreq,                 \* number of calls of fetch_page_with_retry so far
    stop,                 \* why the loop or the run ended
    wrote                 \* which branch wrote the file in this run: none, merged, plain

connVars == <<settings, upstream, output, cpc, existing_df, existing_keys,
              existing_max_period, incremental_active, all_records, new_records,
              current_offset, nreq, stop, wrote>>

\* ConnectorSettings.max_limit and max_records (both read from the environment)
max_limit == 2
max_records == 3

\* a period is <<date, time of day>>; NaT is the null timestamp, and a string
\* that is no date has date 0
NaT == <<0, 0>>
Unparseable == <<0, 1>>
\* a key the record does not carry
Null == "null"
\* periods, (facility, generator) pairs and non-key payloads the upstream sends
RawPeriods == {<<1, 0>>, <<1, 1>>}
Units == {<<"f1", "g1">>, <<"f1", "g2">>}
Vals == {"a", "b"}
KeyedRows ==
    {[period |-> p, facility |-> u[1], generator |-> u[2], val |-> v] :
        p \in RawPeriods, u \in Units, v \in Vals}
\* records of a page whose payload carries no "generator" key
UnkeyedRows ==
    {[period |-> <<1, 0>>, facility |-> "f1", generator |-> Null, val |-> v] : v \in Vals}
SeqsUpTo(S, n) == UNION {[1..k -> S] : k \in 0..n}
Pages == (SeqsUpTo(KeyedRows, max_limit) \cup SeqsUpTo(UnkeyedRows, max_limit)) \ {<<>>}
\* the edge upstream: one known-able row, the same unit at a later period, a
\* period that is no date, and a record whose facility is null
OldRow == [period |-> <<1, 0>>, facility |-> "f1", generator |-> "g1", val |-> "a"]
LateRow == [period |-> <<2, 0>>, facility |-> "f1", generator |-> "g1", val |-> "a"]
BadRow == [period |-> Unparseable, facility |-> "f1", generator |-> "g1", val |-> "a"]
NullRow == [period |-> <<1, 0>>, facility |-> Null, generator |-> "g1", val |-> "a"]
EdgePriorRows == {OldRow, LateRow, BadRow}
EdgeRows == {OldRow, LateRow, BadRow, NullRow}
EdgePages == SeqsUpTo(EdgeRows, max_limit) \ {<<>>}
PagesOf(u) == IF u = "edge" THEN EdgePages ELSE Pages

NoFile == [ex |-> FALSE, rows |-> <<>>]
File(rows) == [ex |-> TRUE, rows |-> rows]
None == [some |-> FALSE, rows |-> <<>>]
Some(rows) == [some |-> TRUE, rows |-> rows]

Range(s) == {s[i] : i \in 1..Len(s)}
Max(S) == CHOOSE x \in S : \A y \in S : y <= x

\* pd.to_datetime(series, errors="coerce").dt.normalize()
safe_period_to_datetime(p) == <<p[1], 0>>
\* Series.astype(str)
astype_str(x) == IF x = Null THEN "None" ELSE x
\* incremental.row_keys, for one row
row_key(r) == <<r.period, r.facility, r.generator>>
row_keys(df) == [i \in 1..Len(df) |-> row_key(df[i])]
\* the three column conversions applied to the prior dataset and to a page
Converted(r) ==
    [r EXCEPT !.period = safe_period_to_datetime(@),
              !.facility = astype_str(@),
              !.generator = astype_str(@)]
ConvertedFrame(df) == [i \in 1..Len(df) |-> Converted(df[i])]
\* set(key_fields).issubset(df.columns): period and facility are in every
\* record of the domain, generator is a column when some record carries it
HasKeyFields(df) == df = <<>> \/ \E i \in 1..Len(df) : df[i].generator # Null
NotNaPeriod(r) == r.period # NaT
NotNaKey(r) == r.period # NaT /\ r.facility # Null /\ r.generator # Null

\* incremental.load_existing_state
load_existing_state(file) ==
    IF ~file.ex \/ ~HasKeyFields(file.rows)
    THEN [df |-> None, keys |-> {}, max_period |-> 0]
    ELSE LET existing == ConvertedFrame(file.rows)
             dated == SelectSeq(existing, NotNaPeriod)
         IN  [df |-> Some(existing),
              keys |-> Range(row_keys(dated)),
              max_period |-> IF dated = <<>> THEN 0
                             ELSE Max({dated[i].period[1] : i \in 1..Len(dated)})]

\* DataFrame.drop_duplicates(subset=key_fields, keep=...)
IsLast(df, i) == \A j \in (i + 1)..Len(df) : row_key(df[j]) # row_key(df[i])
RECURSIVE KeepLast(_, _)
KeepLast(df, i) ==
    IF i > Len(df) THEN <<>>
    ELSE (IF IsLast(df, i) THEN <<df[i]>> ELSE <<>>) \o KeepLast(df, i + 1)
keep_all(df) == df
drop_duplicates(df) == KeepLast(df, 1)

\* df.dropna(subset=existing_required_fields): the required fields that are
\* columns of df
Validate(df) ==
    LET Complete(r) == /\ r.period # NaT
                       /\ r.facility # Null
                       /\ (HasKeyFields(df) => r.generator # Null)
    IN  SelectSeq(df, Complete)

\* the settings and the raw file while no connector run is in progress
ConnIdle ==
    /\ settings = [incremental |-> FALSE, early_stop_on_old_period |-> TRUE,
                   max_records |-> max_records, entry |-> "runner",
                   api_key |-> TRUE]
    /\ upstream = "plain"
    /\ output = NoFile
    /\ cpc = "start"
    /\ existing_df = None
    /\ existing_keys = {}
    /\ existing_max_period = 0
    /\ incremental_active = FALSE
    /\ all_records = <<>>
    /\ new_records = <<>>
    /\ current_offset = 0
    /\ nreq = 0
    /\ stop = "none"
    /\ wrote = "none"

\* the locals of a run that has not started
Fresh ==
    /\ cpc = "start"
    /\ existing_df = None
    /\ existing_keys = {}
    /\ existing_max_period = 0
    /\ incremental_active = FALSE
    /\ all_records = <<>>
    /\ new_records = <<>>
    /\ current_offset = 0
    /\ nreq = 0
    /\ stop = "none"
    /\ wrote = "none"

\* the settings of the run and the file a previous run left behind
ConnInit ==
    /\ settings \in [incremental : BOOLEAN, early_stop_on_old_period : BOOLEAN,
                     max_records : {max_records}, entry : {"runner"},
                     api_key : BOOLEAN]
    /\ upstream = "plain"
    /\ output \in {NoFile} \cup {File(s) : s \in SeqsUpTo(KeyedRows, MaxPrior)}
    /\ Fresh

\* a run of either entry point, with or without the record cap, against an
\* upstream that also sends unparseable periods, null facilities and a later
\* period; the legacy script has no incremental mode
EdgeInit ==
    /\ settings \in {s \in [incremental : BOOLEAN, early_stop_on_old_period : BOOLEAN,
                            max_records : {0, max_records},
                            entry : {"runner", "script"}, api_key : {TRUE}] :
                       s.entry = "script" =>
                           (~s.incremental /\ s.early_stop_on_old_period)}
    /\ upstream = "edge"
    /\ output \in {NoFile} \cup {File(s) : s \in SeqsUpTo(EdgePriorRows, MaxPrior)}
    /\ Fresh

\* client.get_api_key: sys.exit(1) when EIA_API_KEY is not set
NoApiKey ==
    /\ cpc = "start"
    /\ ~settings.api_key
    /\ cpc' = "exit"
    /\ stop' = "SystemExit"
    /\ UNCHANGED <<settings, upstream, output, existing_df, existing_keys,
                   existing_max_period, incremental_active, all_records,
                   new_records, current_offset, nreq, wrote>>

\* run_connector up to the loop: the prior state is loaded in incremental mode
LoadState ==
    /\ cpc = "start"
    /\ settings.api_key
    /\ LET st == IF settings.incremental
                 THEN load_existing_state(output)
                 ELSE [df |-> None, keys |-> {}, max_period |-> 0]
       IN  /\ existing_df' = st.df
           /\ existing_keys' = st.keys
           /\ existing_max_period' = st.max_period
           /\ incremental_active' = st.df.some
    /\ cpc' = "loop"
    /\ UNCHANGED <<settings, upstream, output, all_records, new_records,
                   current_offset, nreq, stop, wrote>>

\* the page is missing or unparseable (fetch_page_with_retry returned None
\* after its retries, or the payload has no "response"): break
PageMissingFails ==
    /\ cpc = "loop"
    /\ cpc' = "raised"
    /\ stop' = "missing"
    /\ nreq' = nreq + 1
    /\ UNCHANGED <<settings, upstream, output, existing_df, existing_keys,
                   existing_max_period, incremental_active, all_records,
                   new_records, current_offset, wrote>>
PageMissing ==
    /\ cpc = "loop"
    /\ cpc' = "post"
    /\ stop' = "missing"
    /\ nreq' = nreq + 1
    /\ UNCHANGED <<settings, upstream, output, existing_df, existing_keys,
                   existing_max_period, incremental_active, all_records,
                   new_records, current_offset, wrote>>

\* the page carries an empty list of records: break
PageEmpty ==
    /\ cpc = "loop"
    /\ cpc' = "post"
    /\ stop' = "empty"
    /\ nreq' = nreq + 1
    /\ UNCHANGED <<settings, upstream, output, existing_df, existing_keys,
                   existing_max_period, incremental_active, all_records,
                   new_records, current_offset, wrote>>

\* fetch_page_with_retry raises PermissionError on HTTP 401/403; nothing in
\* run_connector catches it
PageAuthErrorSkipped ==
    /\ cpc = "loop"
    /\ cpc' = "post"
    /\ stop' = "PermissionError"
    /\ nreq' = nreq + 1
    /\ UNCHANGED <<settings, upstream, output, existing_df, existing_keys,
                   existing_max_period, incremental_active, all_records,
                   new_records, current_offset, wrote>>
PageAuthError ==
    /\ cpc = "loop"
    /\ cpc' = "raised"
    /\ stop' = "PermissionError"
    /\ nreq' = nreq + 1
    /\ UNCHANGED <<settings, upstream, output, existing_df, existing_keys,
                   existing_max_period, incremental_active, all_records,
                   new_records, current_offset, wrote>>

\* current_offset += settings.max_limit
AdvancedByOne(offset, n) == offset + 1
Advanced(offset, n) == offset + max_limit

\* the end of a loop iteration: advance the offset, apply the record cap,
\* stop on a short page
AfterPage(all, new, n) ==
    LET total_seen == Len(all) + Len(new)
        overflow == total_seen - settings.max_records
    IN  /\ current_offset' = Advanced(current_offset, n)
        /\ nreq' = nreq + 1
        /\ IF settings.max_records # 0 /\ total_seen >= settings.max_records
           THEN /\ new_records' =
                      IF total_seen > settings.max_records /\ new # <<>>
                      THEN (IF overflow < Len(new)
                            THEN SubSeq(new, 1, Len(new) - overflow) ELSE <<>>)
                      ELSE new
                /\ all_records' =
                      IF total_seen > settings.max_records /\ new = <<>>
                      THEN SubSeq(all, 1, Len(all) - overflow)
                      ELSE all
                /\ cpc' = "post"
                /\ stop' = "cap"
           ELSE /\ new_records' = new
                /\ all_records' = all
                /\ cpc' = IF n < max_limit THEN "post" ELSE "loop"
                /\ stop' = IF n < max_limit THEN "short" ELSE "none"

\* the same in the legacy script src/connector.py
LegacyAfterPage(all, n) ==
    /\ current_offset' = Advanced(current_offset, n)
    /\ nreq' = nreq + 1
    /\ new_records' = new_records
    /\ IF Len(all) >= settings.max_records
       THEN /\ all_records' = IF Len(all) > settings.max_records
                              THEN SubSeq(all, 1, settings.max_records) ELSE all
            /\ cpc' = "post"
            /\ stop' = "cap"
       ELSE /\ all_records' = all
            /\ cpc' = IF n < max_limit THEN "post" ELSE "loop"
            /\ stop' = IF n < max_limit THEN "short" ELSE "none"

MorePages == current_offset < MaxPages * max_limit

\* the early-stop test of an incremental page
EarlyStopIgnoringMark(page_df, page_new_df) ==
    /\ settings.early_stop_on_old_period
    /\ existing_max_period # 0
    /\ page_df # <<>>
    /\ page_new_df = <<>>
EarlyStop(page_df, page_new_df) ==
    /\ settings.early_stop_on_old_period
    /\ existing_max_period # 0
    /\ page_df # <<>>
    /\ Max({page_df[i].period[1] : i \in 1..Len(page_df)}) <= existing_max_period
    /\ page_new_df = <<>>

\* the valid rows of an incremental page, and those whose key is not known yet
PageFrame(records) == SelectSeq(ConvertedFrame(records), NotNaKey)
IsNew(r) == row_key(r) \notin existing_keys
PageNew(records) == SelectSeq(PageFrame(records), IsNew)

\* a page in incremental mode: keep the rows whose key is not known yet
PageIncremental(records) ==
    /\ cpc = "loop" /\ MorePages
    /\ incremental_active /\ HasKeyFields(records)
    /\ LET page_df == PageFrame(records)
           page_new_df == PageNew(records)
       IN  /\ existing_keys' = existing_keys \cup Range(row_keys(page_new_df))
           /\ IF EarlyStop(page_df, page_new_df)
              THEN /\ cpc' = "post"
                   /\ stop' = "early"
                   /\ nreq' = nreq + 1
                   /\ UNCHANGED <<all_records, new_records, current_offset>>
              ELSE AfterPage(all_records, new_records \o page_new_df, Len(records))
    /\ UNCHANGED <<settings, upstream, output, existing_df, existing_max_period,
                   incremental_active, wrote>>

\* a page without the key fields in incremental mode: fall back to full mode
PageFallback(records) ==
    /\ cpc = "loop" /\ MorePages
    /\ incremental_active /\ ~HasKeyFields(records)
    /\ incremental_active' = FALSE
    /\ AfterPage(all_records \o records, new_records, Len(records))
    /\ UNCHANGED <<settings, upstream, output, existing_df, existing_keys,
                   existing_max_period, wrote>>

\* a page in full mode
PageFull(records) ==
    /\ cpc = "loop" /\ MorePages
    /\ settings.entry = "runner"
    /\ ~incremental_active
    /\ AfterPage(all_records \o records, new_records, Len(records))
    /\ UNCHANGED <<settings, upstream, output, existing_df, existing_keys,
                   existing_max_period, incremental_active, wrote>>

\* a page in the legacy script
PageLegacy(records) ==
    /\ cpc = "loop" /\ MorePages
    /\ settings.entry = "script"
    /\ LegacyAfterPage(all_records \o records, Len(records))
    /\ UNCHANGED <<settings, upstream, output, existing_df, existing_keys,
                   existing_max_period, incremental_active, wrote>>

\* the frame the run starts validation with
Collected == IF incremental_active THEN new_records ELSE all_records

\* "Incremental run found 0 new records. Output unchanged."
FinishNoNewRewrites ==
    /\ cpc = "post"
    /\ incremental_active /\ new_records = <<>>
    /\ cpc' = "done"
    /\ output' = File(existing_df.rows)
    /\ wrote' = "merged"
    /\ UNCHANGED <<settings, upstream, existing_df, existing_keys,
                   existing_max_period, incremental_active, all_records,
                   new_records, current_offset, nreq, stop>>
FinishNoNew ==
    /\ cpc = "post"
    /\ incremental_active /\ new_records = <<>>
    /\ cpc' = "done"
    /\ UNCHANGED <<settings, upstream, output, existing_df, existing_keys,
                   existing_max_period, incremental_active, all_records,
                   new_records, current_offset, nreq, stop, wrote>>

\* "zero records were collected. Nothing to save."
FinishEmpty ==
    /\ cpc = "post"
    /\ ~incremental_active /\ all_records = <<>>
    /\ cpc' = "done"
    /\ UNCHANGED <<settings, upstream, output, existing_df, existing_keys,
                   existing_max_period, incremental_active, all_records,
                   new_records, current_offset, nreq, stop, wrote>>

\* validation, then the incremental write: prior and new rows concatenated and
\* de-duplicated on the key fields
FinishMerge ==
    /\ cpc = "post"
    /\ Collected # <<>>
    /\ incremental_active /\ existing_df.some
    /\ LET merged == existing_df.rows \o Validate(Collected)
       IN  output' = File(IF HasKeyFields(merged) THEN drop_duplicates(merged)
                          ELSE merged)
    /\ wrote' = "merged"
    /\ cpc' = "done"
    /\ UNCHANGED <<settings, upstream, existing_df, existing_keys,
                   existing_max_period, incremental_active, all_records,
                   new_records, current_offset, nreq, stop>>

\* validation, then the plain write of the collected rows
FinishPlain ==
    /\ cpc = "post"
    /\ Collected # <<>>
    /\ ~(incremental_active /\ existing_df.some)
    /\ output' = File(Validate(Collected))
    /\ wrote' = "plain"
    /\ cpc' = "done"
    /\ UNCHANGED <<settings, upstream, existing_df, existing_keys,
                   existing_max_period, incremental_active, all_records,
                   new_records, current_offset, nreq, stop>>

\* the steps of a run of the packaged runner
ConnNext ==
    \/ NoApiKey
    \/ LoadState
    \/ PageMissing
    \/ PageEmpty
    \/ PageAuthError
    \/ \E records \in PagesOf(upstream) :
         \/ PageIncremental(records)
         \/ PageFallback(records)
         \/ PageFull(records)
    \/ FinishNoNew
    \/ FinishEmpty
    \/ FinishMerge
    \/ FinishPlain

\* the steps of a run of either entry point
EdgeNext ==
    \/ LoadState
    \/ PageMissing
    \/ PageEmpty
    \/ \E records \in PagesOf(upstream) :
         \/ PageIncremental(records)
         \/ PageFull(records)
         \/ PageLegacy(records)
    \/ FinishNoNew
    \/ FinishEmpty
    \/ FinishMerge
    \/ FinishPlain

(* ------------------------ PART III : page fetcher ---------------------- *)
\* (specification SpecFetch): one call of
\* arkham_connector.client.fetch_page_with_retry against an upstream that
\* answers each request in any way.
VARIABLES
    fsettings,            \* ConnectorSettings: max_retries, retry_delay
    calls,                \* number of requests.get calls made so far
    fails,                \* the kind of each failed attempt, in order
    sleeps,               \* the time.sleep calls made so far
    fret                  \* how the call ended: running, page, None, PermissionError

fetchVars == <<fsettings, calls, fails, sleeps, fret>>

RECURSIVE Pow2(_)
Pow2(n) == IF n = 0 THEN 1 ELSE 2 * Pow2(n - 1)

\* the loop variable of `for attempt in range(1, settings.max_retries + 1)`
attempt == Len(fails) + 1

FetchIdle ==
    /\ fsettings = [max_retries |-> 0, retry_delay |-> 0]
    /\ calls = 0
    /\ fails = <<>>
    /\ sleeps = <<>>
    /\ fret = "running"

FetchInit ==
    /\ fsettings \in [max_retries : 0..MaxRetries, retry_delay : 0..MaxDelay]
    /\ calls = 0
    /\ fails = <<>>
    /\ sleeps = <<>>
    /\ fret = "running"

\* the call is in an iteration of the for loop
InLoop == fret = "running" /\ attempt <= fsettings.max_retries

\* range(1, max_retries + 1) is empty: the return None after the loop
NoAttempt ==
    /\ fret = "running"
    /\ fsettings.max_retries = 0
    /\ fret' = "None"
    /\ UNCHANGED <<fsettings, calls, fails, sleeps>>

\* requests.get answers 2xx: return response.json()
AttemptOk ==
    /\ InLoop
    /\ calls' = calls + 1
    /\ fret' = "page"
    /\ UNCHANGED <<fsettings, fails, sleeps>>

\* `if attempt == settings.max_retries`
ExhaustedEarly(a) == a + 1 >= fsettings.max_retries
Exhausted(a) == a = fsettings.max_retries

\* requests.get answers 401 or 403: raise PermissionError, which neither
\* except clause catches
AttemptAuthRetried ==
    /\ InLoop
    /\ calls' = calls + 1
    /\ fails' = Append(fails, "auth")
    /\ fret' = IF Exhausted(attempt) THEN "PermissionError" ELSE "running"
    /\ UNCHANGED <<fsettings, sleeps>>
AttemptAuth ==
    /\ InLoop
    /\ calls' = calls + 1
    /\ fret' = "PermissionError"
    /\ UNCHANGED <<fsettings, fails, sleeps>>

\* raise_for_status raises HTTPError: return None on the last attempt, go on
\* to the next attempt otherwise
AttemptHttpError ==
    /\ InLoop
    /\ calls' = calls + 1
    /\ fails' = Append(fails, "http")
    /\ fret' = IF Exhausted(attempt) THEN "None" ELSE "running"
    /\ UNCHANGED <<fsettings, sleeps>>

\* requests.get raises another RequestException: return None on the last
\* attempt, sleep retry_delay * 2 ** (attempt - 1) otherwise
AttemptNetworkError ==
    /\ InLoop
    /\ calls' = calls + 1
    /\ fails' = Append(fails, "net")
    /\ IF Exhausted(attempt)
       THEN /\ fret' = "None"
            /\ UNCHANGED sleeps
       ELSE /\ fret' = "running"
            /\ sleeps' = Append(sleeps, [after |-> attempt,
                                         delay |-> fsettings.retry_delay
                                                     * Pow2(attempt - 1)])
    /\ UNCHANGED fsettings

FetchNext ==
    \/ NoAttempt
    \/ AttemptOk
    \/ AttemptAuth
    \/ AttemptHttpError
    \/ AttemptNetworkError

(* --------------------- PART IV : star-schema builder ------------------- *)
\* (specification SpecModel): arkham_api.refresh.build_modeled_tables, which
\* runs data_model.build_dim_plant, build_dim_date and build_fact_outage on
\* the raw dataset and overwrites the three modeled tables.
VARIABLES
    df_raw,               \* the rows of the raw dataset, in file order
    modeled,              \* the three modeled tables on disk
    mstatus,              \* how the last build ended: none, ok, MergeError, ValueError
    nbuild,               \* number of builds run so far
    raw_columns,          \* the columns of the raw dataset
    merror,               \* the columns the last build's error names
    mdir                  \* the directory modeled_dir exists

modelVars == <<df_raw, modeled, mstatus, nbuild, raw_columns, merror, mdir>>

\* the columns build_modeled_tables requires
expected == {"period", "facility", "facilityName", "generator"}

\* strings of digits are sequences of digits; Python compares them
\* character by character
RECURSIVE StrLess(_, _)
StrLess(a, b) ==
    IF a = <<>> THEN b # <<>>
    ELSE IF b = <<>> THEN FALSE
    ELSE IF a[1] # b[1] THEN a[1] < b[1]
    ELSE StrLess(Tail(a), Tail(b))

\* the (facility, facilityName, generator) triples of the raw dataset:
\* facility "204", facility "46", and facility "46" under a second spelling
\* of its name
RawPlants ==
    { [facility |-> <<2, 0, 4>>, facilityName |-> "Alpha", generator |-> <<1>>],
      [facility |-> <<4, 6>>, facilityName |-> "Beta", generator |-> <<1>>],
      [facility |-> <<4, 6>>, facilityName |-> "Beta Station", generator |-> <<1>>] }
\* the periods of the raw dataset: midnights of days 1..MaxDay, one
\* timestamp within day 1, and a value that is no date
RawDates == {<<d, 0>> : d \in 1..MaxDay} \cup {<<1, 1>>, NaT}
RawRows ==
    { [period |-> p, facility |-> u.facility, facilityName |-> u.facilityName,
       generator |-> u.generator] : p \in RawDates, u \in RawPlants }
\* a raw dataset of one row that has the columns cols only
Narrow(cols) ==
    LET row == [period |-> <<1, 0>>, facility |-> <<4, 6>>,
                facilityName |-> "Beta", generator |-> <<1>>]
    IN  <<[c \in cols |-> row[c]]>>

\* the calendar: day 1 is Thursday 2025-01-30, so that day 3 is 2025-02-01
Year(d) == 2025
Month(d) == IF d <= 2 THEN 1 ELSE 2
DayOfMonth(d) == IF d <= 2 THEN 29 + d ELSE d - 2
dayofweek(d) == (d + 2) % 7
\* dt.strftime("%Y%m%d").astype("int64")
_make_date_key(dt) == Year(dt[1]) * 10000 + Month(dt[1]) * 100 + DayOfMonth(dt[1])

\* the rows of s at the positions of I, in order
take(s, I) ==
    [k \in 1..Cardinality(I) |->
        s[CHOOSE i \in I : Cardinality({j \in I : j < i}) = k - 1]]
\* DataFrame.drop_duplicates(), which keeps the first of equal rows
drop_duplicates_first(s) ==
    take(s, {i \in 1..Len(s) : \A j \in 1..(i - 1) : s[j] # s[i]})

\* plants.index.astype("int64") + 1, for the row at pandas index idx
SurrogateKeyZeroBased(idx) == idx
SurrogateKey(idx) == idx + 1

\* the period, facility and generator conversions of build_modeled_tables
Normalised(df) ==
    [i \in 1..Len(df) |->
        [df[i] EXCEPT !.period = safe_period_to_datetime(@),
                      !.facility = astype_str(@),
                      !.generator = astype_str(@)]]

\* order of (EIA_FacilityID, Generator)
PlantBefore(a, b) ==
    \/ StrLess(a.EIA_FacilityID, b.EIA_FacilityID)
    \/ a.EIA_FacilityID = b.EIA_FacilityID /\ StrLess(a.Generator, b.Generator)
SamePlant(a, b) ==
    a.EIA_FacilityID = b.EIA_FacilityID /\ a.Generator = b.Generator
\* sort_values(["EIA_FacilityID", "Generator"], kind="stable")
sort_plants(s) ==
    LET pos(i) == 1 + Cardinality({j \in 1..Len(s) :
                        \/ PlantBefore(s[j], s[i])
                        \/ SamePlant(s[j], s[i]) /\ j < i})
    IN  [k \in 1..Len(s) |-> s[CHOOSE i \in 1..Len(s) : pos(i) = k]]

build_dim_plant(df) ==
    LET cols == [i \in 1..Len(df) |->
                    [EIA_FacilityID |-> df[i].facility,
                     PlantName |-> df[i].facilityName,
                     Generator |-> df[i].generator]]
        plants == sort_plants(drop_duplicates_first(cols))
    IN  [i \in 1..Len(plants) |->
            [PlantKey |-> SurrogateKey(i - 1),
             EIA_FacilityID |-> astype_str(plants[i].EIA_FacilityID),
             PlantName |-> plants[i].PlantName,
             UnitName |-> <<"Unit ", astype_str(plants[i].Generator)>>,
             Generator |-> astype_str(plants[i].Generator)]]

\* order of timestamps, NaT last
DateBefore(p, q) == p # NaT /\ (q = NaT \/ p[1] < q[1])
DayName(d) ==
    <<"Monday", "Tuesday", "Wednesday", "Thursday", "Friday", "Saturday",
      "Sunday">>[dayofweek(d) + 1]
build_dim_date(df) ==
    LET periods == [i \in 1..Len(df) |-> df[i].period]
        dropna == take(periods, {i \in 1..Len(df) : periods[i] # NaT})
        uniq == drop_duplicates_first(dropna)
        pos(i) == 1 + Cardinality({j \in 1..Len(uniq) : DateBefore(uniq[j], uniq[i])})
        dates == [k \in 1..Len(uniq) |-> uniq[CHOOSE i \in 1..Len(uniq) : pos(i) = k]]
    IN  [i \in 1..Len(dates) |->
            [DateKey |-> _make_date_key(dates[i]),
             Date |-> dates[i],
             Year |-> Year(dates[i][1]),
             Month |-> Month(dates[i][1]),
             DayOfWeek |-> DayName(dates[i][1]),
             IsWeekend |-> dayofweek(dates[i][1]) >= 5]]

\* merge(..., validate="many_to_one"): the right keys must be unique
many_to_one(dim_plant) ==
    \A i, j \in 1..Len(dim_plant) :
        SamePlant(dim_plant[i], dim_plant[j]) => i = j
\* df_raw.merge(dim_plant, how="inner"): the PlantKey of every raw row, in
\* raw order
raw_with_keys(df, dim_plant) ==
    LET key(r) == [EIA_FacilityID |-> r.facility, Generator |-> r.generator]
        matched == {i \in 1..Len(df) :
                       \E k \in 1..Len(dim_plant) : SamePlant(dim_plant[k], key(df[i]))}
        left == take(df, matched)
    IN  [i \in 1..Len(left) |->
            [PlantKey |-> dim_plant[CHOOSE k \in 1..Len(dim_plant) :
                                        SamePlant(dim_plant[k], key(left[i]))].PlantKey,
             period |-> left[i].period]]
\* sort_values(["PlantKey", "period"], kind="stable")
sort_raw_with_keys(s) ==
    LET before(a, b) ==
            \/ a.PlantKey < b.PlantKey
            \/ a.PlantKey = b.PlantKey /\ DateBefore(a.period, b.period)
        same(a, b) == a.PlantKey = b.PlantKey /\ a.period = b.period
        pos(i) == 1 + Cardinality({j \in 1..Len(s) :
                        before(s[j], s[i]) \/ (same(s[j], s[i]) /\ j < i)})
    IN  [k \in 1..Len(s) |-> s[CHOOSE i \in 1..Len(s) : pos(i) = k]]

\* `gap_days != 1`
IsBreakAboveTwo(gap_days) == gap_days > 2
IsBreak(gap_days) == gap_days # 1

\* the rows of rk with their _event_id
with_event_id(rk) ==
    LET group(i) == {j \in 1..Len(rk) : rk[j].PlantKey = rk[i].PlantKey}
        prev(i) == IF {j \in group(i) : j < i} = {} THEN NaT
                   ELSE rk[Max({j \in group(i) : j < i})].period
        is_new_event(i) ==
            \/ prev(i) = NaT
            \/ IF rk[i].period = NaT THEN TRUE
               ELSE IsBreak(rk[i].period[1] - prev(i)[1])
        cumsum(i) == Cardinality({j \in group(i) : j <= i /\ is_new_event(j)})
    IN  [i \in 1..Len(rk) |->
            [PlantKey |-> rk[i].PlantKey, period |-> rk[i].period,
             _event_id |-> cumsum(i)]]

\* min and max of a group of timestamps, skipping NaT
MinDate(S) ==
    IF S \ {NaT} = {} THEN NaT
    ELSE CHOOSE p \in S \ {NaT} : \A q \in S \ {NaT} : p[1] <= q[1]
MaxDate(S) ==
    IF S \ {NaT} = {} THEN NaT
    ELSE CHOOSE p \in S \ {NaT} : \A q \in S \ {NaT} : q[1] <= p[1]

\* groupby(["PlantKey", "_event_id"], as_index=False).agg(min, max): one row
\* per group, the groups in key order
collapse(re) ==
    LET groups == {<<re[i].PlantKey, re[i]._event_id>> : i \in 1..Len(re)}
        less(g, h) == g[1] < h[1] \/ (g[1] = h[1] /\ g[2] < h[2])
        nth(k) == CHOOSE g \in groups :
                      Cardinality({h \in groups : less(h, g)}) = k - 1
        members(g) == {re[i].period : i \in {j \in 1..Len(re) :
                          re[j].PlantKey = g[1] /\ re[j]._event_id = g[2]}}
    IN  [k \in 1..Cardinality(groups) |->
            [PlantKey |-> nth(k)[1],
             OutageStartDate |-> MinDate(members(nth(k))),
             OutageLastDate |-> MaxDate(members(nth(k)))]]
\* sort_values(["PlantKey", "OutageStartDate"], kind="stable")
sort_events(s) ==
    LET before(a, b) ==
            \/ a.PlantKey < b.PlantKey
            \/ /\ a.PlantKey = b.PlantKey
               /\ DateBefore(a.OutageStartDate, b.OutageStartDate)
        same(a, b) ==
            a.PlantKey = b.PlantKey /\ a.OutageStartDate = b.OutageStartDate
        pos(i) == 1 + Cardinality({j \in 1..Len(s) :
                        before(s[j], s[i]) \/ (same(s[j], s[i]) /\ j < i)})
    IN  [k \in 1..Len(s) |-> s[CHOOSE i \in 1..Len(s) : pos(i) = k]]

\* the collapsed events of the raw dataset, before the derived columns
events_of(df, dim_plant) ==
    sort_events(collapse(with_event_id(
        sort_raw_with_keys(raw_with_keys(df, dim_plant)))))

\* OutageLastDate + pd.Timedelta(days=1)
InclusiveEnd(last) == last
ExclusiveEnd(last) == <<last[1] + 1, last[2]>>
\* (end - start).dt.total_seconds() / 3600.0
DurationHours(start, end) == ((end[1] - start[1]) * 86400) \div 3600

\* _make_date_key raises on an event whose start is NaT
date_key_fails(events) ==
    \E i \in 1..Len(events) : events[i].OutageStartDate = NaT

build_fact_outage(df, dim_plant) ==
    LET events == events_of(df, dim_plant)
        plant(e) == dim_plant[CHOOSE k \in 1..Len(dim_plant) :
                                  dim_plant[k].PlantKey = e.PlantKey]
    IN  [i \in 1..Len(events) |->
            [OutageKey |-> SurrogateKey(i - 1),
             PlantKey |-> events[i].PlantKey,
             DateKey |-> _make_date_key(events[i].OutageStartDate),
             OutageStartTimestamp |-> events[i].OutageStartDate,
             OutageEndTimestamp |-> ExclusiveEnd(events[i].OutageLastDate),
             OutageDurationHours |->
                 DurationHours(events[i].OutageStartDate,
                               ExclusiveEnd(events[i].OutageLastDate)),
             EIA_OutageID |->
                 <<astype_str(plant(events[i]).EIA_FacilityID), "-",
                   astype_str(plant(events[i]).Generator), "-",
                   _make_date_key(events[i].OutageStartDate)>>]]

\* DataFrame.to_parquet(path): the file holds the new table only
to_parquet_appending(old, new) == old \o new
to_parquet(old, new) == new

NoTables == [dim_plant |-> <<>>, dim_date |-> <<>>, fact_outage |-> <<>>]

ModelIdle ==
    /\ df_raw = <<>>
    /\ raw_columns = expected
    /\ modeled = NoTables
    /\ mstatus = "none"
    /\ nbuild = 0
    /\ merror = {}
    /\ mdir = FALSE

\* a raw dataset is on disk (the connector writes no empty dataset) and no
\* build has run
ModelInit ==
    /\ raw_columns \in SUBSET expected
    /\ IF raw_columns = expected
       THEN df_raw \in SeqsUpTo(RawRows, MaxRaw) \ {<<>>}
       ELSE df_raw = Narrow(raw_columns)
    /\ modeled = NoTables
    /\ mstatus = "none"
    /\ nbuild = 0
    /\ merror = {}
    /\ mdir = FALSE

\* the raw dataset lacks a required column: ValueError naming the missing
\* columns, before anything is built or written
MissingColumnsAfterMkdir ==
    /\ nbuild < MaxBuilds
    /\ expected \ raw_columns # {}
    /\ mstatus' = "ValueError"
    /\ merror' = expected \ raw_columns
    /\ mdir' = TRUE
    /\ nbuild' = nbuild + 1
    /\ UNCHANGED <<df_raw, raw_columns, modeled>>
BuildMissingColumns ==
    /\ nbuild < MaxBuilds
    /\ expected \ raw_columns # {}
    /\ mstatus' = "ValueError"
    /\ merror' = expected \ raw_columns
    /\ nbuild' = nbuild + 1
    /\ UNCHANGED <<df_raw, raw_columns, modeled, mdir>>

\* build_fact_outage raises MergeError at its first merge: nothing is written
BuildMergeError ==
    /\ nbuild < MaxBuilds
    /\ expected \ raw_columns = {}
    /\ ~ many_to_one(build_dim_plant(Normalised(df_raw)))
    /\ mstatus' = "MergeError"
    /\ merror' = {}
    /\ nbuild' = nbuild + 1
    /\ UNCHANGED <<df_raw, raw_columns, modeled, mdir>>

\* _make_date_key raises ValueError on an event without a start date:
\* nothing is written
BuildDateKeyError ==
    /\ nbuild < MaxBuilds
    /\ expected \ raw_columns = {}
    /\ many_to_one(build_dim_plant(Normalised(df_raw)))
    /\ date_key_fails(events_of(Normalised(df_raw),
                                build_dim_plant(Normalised(df_raw))))
    /\ mstatus' = "ValueError"
    /\ merror' = {}
    /\ nbuild' = nbuild + 1
    /\ UNCHANGED <<df_raw, raw_columns, modeled, mdir>>

\* the three tables are built, modeled_dir is created if need be and the
\* tables are written
BuildOk ==
    /\ nbuild < MaxBuilds
    /\ expected \ raw_columns = {}
    /\ LET df == Normalised(df_raw)
           dim_plant == build_dim_plant(df)
       IN  /\ many_to_one(dim_plant)
           /\ ~ date_key_fails(events_of(df, dim_plant))
           /\ modeled' =
                [dim_plant |-> to_parquet(modeled.dim_plant, dim_plant),
                 dim_date |-> to_parquet(modeled.dim_date, build_dim_date(df)),
                 fact_outage |-> to_parquet(modeled.fact_outage,
                                            build_fact_outage(df, dim_plant))]
    /\ mstatus' = "ok"
    /\ merror' = {}
    /\ mdir' = TRUE
    /\ nbuild' = nbuild + 1
    /\ UNCHANGED <<df_raw, raw_columns>>

ModelNext ==
    \/ BuildMissingColumns
    \/ BuildOk
    \/ BuildMergeError
    \/ BuildDateKeyError

(* ------------------- PART V : the GET /data result --------------------- *)
VARIABLES
    vdir,            \* the modeled tables at settings.modeled_dir and their mtime
    vcache,          \* app.state.cache: the mtimes and the join view of the last load
    vreq,            \* the query parameters the client sends with GET /data
    vresp            \* the response of the last GET /data

viewVars == <<vdir, vcache, vreq, vresp>>

\* rows of fact_outage.parquet: the builder numbers OutageKey 1..n in row order
\* two plants that start on the same day, one of them again a day later
FactRows ==
    {[PlantKey |-> kd[1], DateKey |-> _make_date_key(<<kd[2], 0>>),
      OutageStartTimestamp |-> <<kd[2], 0>>] : kd \in {<<1, 1>>, <<2, 1>>, <<1, 2>>}}
FactTables ==
    {[i \in 1..Len(s) |->
        [OutageKey |-> i, PlantKey |-> s[i].PlantKey, DateKey |-> s[i].DateKey,
         OutageStartTimestamp |-> s[i].OutageStartTimestamp]] :
        s \in SeqsUpTo(FactRows, MaxFact)}
\* dim_plant.parquet: every plant once, a PlantKey twice, a plant missing
PlantTables ==
    {<<[PlantKey |-> 1, PlantName |-> "Alpha"], [PlantKey |-> 2, PlantName |-> "Beta"]>>,
     <<[PlantKey |-> 1, PlantName |-> "Alpha"], [PlantKey |-> 1, PlantName |-> "Beta"]>>,
     <<[PlantKey |-> 1, PlantName |-> "Alpha"]>>}
\* dim_date.parquet: every date once, a DateKey twice
DateTables ==
    {<<[DateKey |-> _make_date_key(<<1, 0>>), Date |-> <<1, 0>>],
       [DateKey |-> _make_date_key(<<2, 0>>), Date |-> <<2, 0>>]>>,
     <<[DateKey |-> _make_date_key(<<1, 0>>), Date |-> <<1, 0>>],
       [DateKey |-> _make_date_key(<<1, 0>>), Date |-> <<1, 0>>]>>}

\* an optional query parameter: <<>> is None, <<v>> carries v
PlantKeyParams == {<<>>, <<1>>}

\* ---- storage.build_outage_view ----
RECURSIVE Flatten(_)
Flatten(ss) == IF ss = <<>> THEN <<>> ELSE Head(ss) \o Flatten(Tail(ss))
\* validate="many_to_one": the merge keys are unique in the right table
unique_PlantKey_unchecked(dim_plant) == TRUE
unique_PlantKey(dim_plant) ==
    \A i, j \in 1..Len(dim_plant) : dim_plant[i].PlantKey = dim_plant[j].PlantKey => i = j
unique_DateKey(dim_date) ==
    \A i, j \in 1..Len(dim_date) : dim_date[i].DateKey = dim_date[j].DateKey => i = j
\* fact_outage.merge(dim_plant, on="PlantKey", how="left"): in fact order, one
\* row per matching plant row, or one row with null plant columns
merge_dim_plant(fact_outage, dim_plant) ==
    Flatten([i \in 1..Len(fact_outage) |->
        LET f == fact_outage[i]
            hits == {k \in 1..Len(dim_plant) : dim_plant[k].PlantKey = f.PlantKey}
        IN  IF hits = {}
            THEN <<[OutageKey |-> f.OutageKey, PlantKey |-> f.PlantKey,
                    DateKey |-> f.DateKey,
                    OutageStartTimestamp |-> f.OutageStartTimestamp,
                    PlantName |-> Null]>>
            ELSE [n \in 1..Cardinality(hits) |->
                    [OutageKey |-> f.OutageKey, PlantKey |-> f.PlantKey,
                     DateKey |-> f.DateKey,
                     OutageStartTimestamp |-> f.OutageStartTimestamp,
                     PlantName |-> take(dim_plant, hits)[n].PlantName]]])
\* df.merge(dim_date[["DateKey", "Date"]], on="DateKey", how="left")
merge_dim_date(df, dim_date) ==
    Flatten([i \in 1..Len(df) |->
        LET f == df[i]
            hits == {k \in 1..Len(dim_date) : dim_date[k].DateKey = f.DateKey}
        IN  IF hits = {}
            THEN <<[OutageKey |-> f.OutageKey, PlantKey |-> f.PlantKey,
                    DateKey |-> f.DateKey,
                    OutageStartTimestamp |-> f.OutageStartTimestamp,
                    PlantName |-> f.PlantName, Date |-> NaT]>>
            ELSE [n \in 1..Cardinality(hits) |->
                    [OutageKey |-> f.OutageKey, PlantKey |-> f.PlantKey,
                     DateKey |-> f.DateKey,
                     OutageStartTimestamp |-> f.OutageStartTimestamp,
                     PlantName |-> f.PlantName,
                     Date |-> take(dim_date, hits)[n].Date]]])
\* the merges raise MergeError
view_fails(dir) == ~unique_PlantKey(dir.dim_plant) \/ ~unique_DateKey(dir.dim_date)
build_outage_view(dim_plant, dim_date, fact_outage) ==
    merge_dim_date(merge_dim_plant(fact_outage, dim_plant), dim_date)

\* ---- query.apply_filters, the sort of get_data, query.paginate ----
\* the other filters of the request are None
apply_filters(df, plant_key) ==
    IF plant_key # <<>>
    THEN take(df, {i \in 1..Len(df) : df[i].PlantKey = plant_key[1]})
    ELSE df
\* a sorts before b in ["OutageStartTimestamp", "PlantKey"], ascending=[False, True]
ViewBefore(a, b) ==
    \/ a.OutageStartTimestamp[1] > b.OutageStartTimestamp[1]
    \/ /\ a.OutageStartTimestamp = b.OutageStartTimestamp
       /\ a.PlantKey < b.PlantKey
\* DataFrame.sort_values on two columns is stable
sort_view(df) ==
    [k \in 1..Len(df) |->
        df[CHOOSE i \in 1..Len(df) :
              Cardinality({j \in 1..Len(df) :
                  \/ ViewBefore(df[j], df[i])
                  \/ (~ViewBefore(df[i], df[j]) /\ j < i)}) = k - 1]]
page_start_zero_based(page, limit) == page * limit
\* start = (page - 1) * limit
page_start(page, limit) == (page - 1) * limit
\* df.iloc[start:end], total
paginate(df, page, limit) ==
    LET total == Len(df)
        start == page_start(page, limit)
        end == start + limit
        last == IF end < total THEN end ELSE total
    IN  [data |-> IF start < last THEN SubSeq(df, start + 1, last) ELSE <<>>,
         total |-> total]

NoViewCache == [full |-> FALSE, mt |-> 0, view |-> <<>>]
NoViewResp == [status |-> 0, total |-> 0, data |-> <<>>]
\* page: int = Query(1, ge=1), limit: int = Query(100, ge=1, le=1000)
Requests == [page : 1..MaxPage, limit : 1..MaxLimit, plant_key : PlantKeyParams]
ViewIdle ==
    /\ vdir = [dim_plant |-> <<>>, dim_date |-> <<>>, fact_outage |-> <<>>, mt |-> 0]
    /\ vcache = NoViewCache
    /\ vreq = [page |-> 1, limit |-> 1, plant_key |-> <<>>]
    /\ vresp = NoViewResp
ViewInit ==
    /\ vdir \in [dim_plant : PlantTables, dim_date : DateTables,
                 fact_outage : FactTables, mt : {1}]
    /\ vcache = NoViewCache
    /\ vreq \in Requests
    /\ vresp = NoViewResp

\* cache is None or cache.mtimes != current_mtimes
view_stale == ~vcache.full \/ vcache.mt # vdir.mt
\* get_data whose reload raises inside the guarded section: the exception
\* leaves the with block before app.state.cache is assigned
GetDataMergeError ==
    /\ view_stale
    /\ view_fails(vdir)
    /\ vresp' = [status |-> 500, total |-> 0, data |-> <<>>]
    /\ UNCHANGED <<vdir, vcache, vreq>>
\* get_data: reload when stale, then filter, sort and slice the cached view
GetDataOk ==
    /\ view_stale => ~view_fails(vdir)
    /\ LET new_cache ==
               IF view_stale
               THEN [full |-> TRUE, mt |-> vdir.mt,
                     view |-> build_outage_view(vdir.dim_plant, vdir.dim_date,
                                                vdir.fact_outage)]
               ELSE vcache
           df == sort_view(apply_filters(new_cache.view, vreq.plant_key))
           pg == paginate(df, vreq.page, vreq.limit)
       IN  /\ vcache' = new_cache
           /\ vresp' = [status |-> 200, total |-> pg.total, data |-> pg.data]
    /\ UNCHANGED <<vdir, vreq>>
\* the dimension files are written again in place
RewriteDims ==
    /\ vdir.mt < MaxMtime
    /\ \E p \in PlantTables, d \in DateTables :
          vdir' = [vdir EXCEPT !.dim_plant = p, !.dim_date = d, !.mt = vdir.mt + 1]
    /\ UNCHANGED <<vcache, vreq, vresp>>
ViewNext ==
    \/ GetDataOk
    \/ GetDataMergeError
    \/ RewriteDims

(* ------------- PART VI : the raw dataset file of a refresh ------------- *)
VARIABLES
    rawfile,         \* the file at settings.raw_path: the extraction that wrote it last
    rwriters,        \* request threads inside to_parquet(output_path)
    rreaders,        \* request threads inside pd.read_parquet(raw_path)
    rpc,             \* position of every refresh thread in run_refresh_build_tmp
    rsaw,            \* per thread: the extraction whose rows its builder read
    rtmp,            \* per thread: the extraction its staging directory is built from
    rserving,        \* the extraction the serving directory is built from
    rext,            \* per thread: the number of its extraction
    nraw             \* extractions started so far

rawVars == <<rawfile, rwriters, rreaders, rpc, rsaw, rtmp, rserving, rext, nraw>>

\* the rows a builder gets from a file that is being written while it reads
Torn == MaxRefreshes + 1
RawIdle ==
    /\ rawfile = 0
    /\ rwriters = {}
    /\ rreaders = {}
    /\ rpc = [f \in Refreshers |-> "idle"]
    /\ rsaw = [f \in Refreshers |-> 0]
    /\ rtmp = [f \in Refreshers |-> 0]
    /\ rserving = 0
    /\ rext = [f \in Refreshers |-> 0]
    /\ nraw = 0
RawInit == RawIdle

\* POST /refresh arrives; _run_connector_to(raw_path) starts fetching pages
RawStart(f) ==
    /\ rpc[f] \in {"idle", "done"}
    /\ nraw < MaxRefreshes
    /\ nraw' = nraw + 1
    /\ rext' = [rext EXCEPT ![f] = nraw + 1]
    /\ rpc' = [rpc EXCEPT ![f] = "fetching"]
    /\ rsaw' = [rsaw EXCEPT ![f] = 0]
    /\ rtmp' = [rtmp EXCEPT ![f] = 0]
    /\ UNCHANGED <<rawfile, rwriters, rreaders, rserving>>
\* run_connector opens the output file and starts writing; no lock is held
WriteOpen(f) ==
    /\ rpc[f] = "fetching"
    /\ rpc' = [rpc EXCEPT ![f] = "writing"]
    /\ rwriters' = rwriters \cup {f}
    /\ rsaw' = [g \in Refreshers |-> IF g \in rreaders THEN Torn ELSE rsaw[g]]
    /\ UNCHANGED <<rawfile, rreaders, rtmp, rserving, rext, nraw>>
\* to_parquet returns: the file holds this extraction's rows, or those of
\* an extraction that is writing it at the same time
WriteClose(f) ==
    /\ rpc[f] = "writing"
    /\ rpc' = [rpc EXCEPT ![f] = "extracted"]
    /\ rwriters' = rwriters \ {f}
    /\ \E g \in rwriters : rawfile' = rext[g]
    /\ UNCHANGED <<rreaders, rsaw, rtmp, rserving, rext, nraw>>
\* build_modeled_tables opens the raw file
BuildOpen(f) ==
    /\ rpc[f] = "extracted"
    /\ rpc' = [rpc EXCEPT ![f] = "reading"]
    /\ rreaders' = rreaders \cup {f}
    /\ rsaw' = [rsaw EXCEPT ![f] = IF rwriters = {} THEN rawfile ELSE Torn]
    /\ UNCHANGED <<rawfile, rwriters, rtmp, rserving, rext, nraw>>
\* read_parquet returned rows and the staging directory is built from them; a
\* file that was written during the read gives the rows of any extraction
BuildClose(f) ==
    /\ rpc[f] = "reading"
    /\ rsaw[f] # Torn \/ (\E g \in Refreshers : rext[g] > 0)
    /\ \E v \in (IF rsaw[f] # Torn THEN {rsaw[f]}
                 ELSE {rext[g] : g \in {h \in Refreshers : rext[h] > 0}}) :
          rtmp' = [rtmp EXCEPT ![f] = v]
    /\ rpc' = [rpc EXCEPT ![f] = "staged"]
    /\ rreaders' = rreaders \ {f}
    /\ UNCHANGED <<rawfile, rwriters, rsaw, rserving, rext, nraw>>
\* read_parquet raises on a file that was written during the read: the
\* request answers 500 and nothing is swapped
BuildFail(f) ==
    /\ rpc[f] = "reading"
    /\ rsaw[f] = Torn
    /\ rpc' = [rpc EXCEPT ![f] = "done"]
    /\ rreaders' = rreaders \ {f}
    /\ UNCHANGED <<rawfile, rwriters, rsaw, rtmp, rserving, rext, nraw>>
\* with app.state.lock: atomic_replace_modeled_dir(tmp_dir, modeled_dir)
RawSwap(f) ==
    /\ rpc[f] = "staged"
    /\ rserving' = rtmp[f]
    /\ rpc' = [rpc EXCEPT ![f] = "done"]
    /\ UNCHANGED <<rawfile, rwriters, rreaders, rsaw, rtmp, rext, nraw>>
RawNext ==
    \E f \in Refreshers :
        \/ RawStart(f)
        \/ WriteOpen(f) \/ WriteClose(f)
        \/ BuildOpen(f) \/ BuildClose(f) \/ BuildFail(f)
        \/ RawSwap(f)

(* ------- PART VII : two incremental runs against one upstream ---------- *)
VARIABLES
    feed,            \* the records the upstream holds, in the order it serves them
    prior,           \* the raw file an earlier run left behind
    run,             \* which run is in progress: 1 early stop on, 2 early stop off
    first_output     \* the raw file as run 1 left it

feedVars == <<feed, prior, run, first_output>>

\* two generators of one facility on two days
FeedRows ==
    {[period |-> <<d, 0>>, facility |-> "f1", generator |-> g, val |-> "a"] :
        d \in 1..2, g \in {"g1", "g2"}}
\* sort[period]=desc: no record twice, no period after an earlier one
RecentFirst(s) ==
    /\ \A i, j \in 1..Len(s) : s[i] = s[j] => i = j
    /\ \A i \in 1..(Len(s) - 1) : s[i].period[1] >= s[i + 1].period[1]
Feeds == {s \in SeqsUpTo(FeedRows, MaxPages * max_limit) : RecentFirst(s)}
\* the page at an offset: "offset" and "length" of the request
FeedPage(offset) ==
    IF offset >= Len(feed) THEN <<>>
    ELSE SubSeq(feed, offset + 1,
                IF offset + max_limit < Len(feed) THEN offset + max_limit ELSE Len(feed))

FeedIdle ==
    /\ feed = <<>>
    /\ prior = NoFile
    /\ run = 0
    /\ first_output = NoFile
\* an incremental run over a prior file that holds the first rows of the feed,
\* as a run stopped by the record cap leaves it
FeedInit ==
    /\ settings \in [incremental : {TRUE}, early_stop_on_old_period : {TRUE},
                     max_records : {0, max_records}, entry : {"runner"},
                     api_key : {TRUE}]
    /\ upstream = "plain"
    /\ feed \in Feeds
    /\ prior \in {File(SubSeq(feed, 1, k)) : k \in 1..Len(feed)}
    /\ output = prior
    /\ Fresh
    /\ run = 1
    /\ first_output = NoFile

\* one request of the loop, answered from the feed
FeedRequest ==
    /\ cpc = "loop"
    /\ IF FeedPage(current_offset) = <<>>
       THEN PageEmpty
       ELSE PageIncremental(FeedPage(current_offset))
    /\ UNCHANGED feedVars
\* the same prior file and upstream, run again with
\* INCREMENTAL_EARLY_STOP_ON_OLD_PERIOD=false
Rerun ==
    /\ cpc = "done" /\ run = 1
    /\ run' = 2
    /\ first_output' = output
    /\ output' = prior
    /\ settings' = [settings EXCEPT !.early_stop_on_old_period = FALSE]
    /\ cpc' = "start"
    /\ existing_df' = None
    /\ existing_keys' = {}
    /\ existing_max_period' = 0
    /\ incremental_active' = FALSE
    /\ all_records' = <<>>
    /\ new_records' = <<>>
    /\ current_offset' = 0
    /\ nreq' = 0
    /\ stop' = "none"
    /\ wrote' = "none"
    /\ UNCHANGED <<upstream, feed, prior>>
FeedNext ==
    \/ LoadState /\ UNCHANGED feedVars
    \/ FeedRequest
    \/ FinishNoNew /\ UNCHANGED feedVars
    \/ FinishMerge /\ UNCHANGED feedVars
    \/ Rerun

(* --------------------------- specifications --------------------------- *)
vars == <<apiVars, connVars, fetchVars, modelVars, viewVars, rawVars, feedVars>>
\* the serving API, with no connector run in progress
Init ==
    /\ ApiInit /\ ConnIdle /\ FetchIdle /\ ModelIdle
    /\ ViewIdle /\ RawIdle /\ FeedIdle
Next == ApiNext /\ UNCHANGED <<connVars, fetchVars, modelVars, viewVars, rawVars, feedVars>>
Spec == Init /\ [][Next]_vars
\* the same under fair scheduling: a request thread that can take a step again
\* and again does take one (requests need not keep arriving)
ReadStep(p) == ReadEnter(p) \/ ReadFile(p) \/ ReadLast(p)
RefreshStep(f) ==
    \/ Stage(f)
    \/ SwapRename1(f) \/ SwapRename2(f) \/ SwapRollback(f)
    \/ SwapInvalidate(f)
FairThreads ==
    /\ \A p \in Readers :
          SF_vars(ReadStep(p) /\ UNCHANGED <<connVars, fetchVars, modelVars,
                                           viewVars, rawVars, feedVars>>)
    /\ \A f \in Refreshers :
          SF_vars(RefreshStep(f) /\ UNCHANGED <<connVars, fetchVars, modelVars,
                                              viewVars, rawVars, feedVars>>)
\* the request threads alone, serving MaxLive requests: no modeled file is
\* rewritten in place
NextLive ==
    /\ \/ \E p \in Readers : ReadStart(p) \/ ReadStep(p)
       \/ \E f \in Refreshers : RefreshStart(f) \/ RefreshStep(f)
    /\ nread' + nref' <= MaxLive
    /\ UNCHANGED <<connVars, fetchVars, modelVars, viewVars, rawVars, feedVars>>
SpecLive == Init /\ [][NextLive]_vars /\ FairThreads
\* one connector run, with the API at rest
InitConn ==
    /\ ApiInit /\ serving = InitialDir /\ ConnInit /\ FetchIdle /\ ModelIdle
    /\ ViewIdle /\ RawIdle /\ FeedIdle
NextConn == ConnNext /\ UNCHANGED <<apiVars, fetchVars, modelVars, viewVars, rawVars, feedVars>>
SpecConn == InitConn /\ [][NextConn]_vars
\* one run of either entry point against the edge upstream
InitEdge ==
    /\ ApiInit /\ serving = InitialDir /\ EdgeInit /\ FetchIdle /\ ModelIdle
    /\ ViewIdle /\ RawIdle /\ FeedIdle
NextEdge == EdgeNext /\ UNCHANGED <<apiVars, fetchVars, modelVars, viewVars, rawVars, feedVars>>
SpecEdge == InitEdge /\ [][NextEdge]_vars
\* one call of the page fetcher
InitFetch ==
    /\ ApiInit /\ serving = InitialDir /\ ConnIdle /\ FetchInit /\ ModelIdle
    /\ ViewIdle /\ RawIdle /\ FeedIdle
NextFetch == FetchNext /\ UNCHANGED <<apiVars, connVars, modelVars, viewVars, rawVars, feedVars>>
SpecFetch == InitFetch /\ [][NextFetch]_vars
\* builds of the modeled tables from one raw dataset
InitModel ==
    /\ ApiInit /\ serving = InitialDir /\ ConnIdle /\ FetchIdle /\ ModelInit
    /\ ViewIdle /\ RawIdle /\ FeedIdle
NextModel == ModelNext /\ UNCHANGED <<apiVars, connVars, fetchVars, viewVars, rawVars, feedVars>>
SpecModel == InitModel /\ [][NextModel]_vars
\* GET /data requests against one set of modeled tables
InitView ==
    /\ ApiInit /\ serving = InitialDir /\ ConnIdle /\ FetchIdle /\ ModelIdle
    /\ ViewInit /\ RawIdle /\ FeedIdle
NextView ==
    ViewNext /\ UNCHANGED <<apiVars, connVars, fetchVars, modelVars, rawVars, feedVars>>
SpecView == InitView /\ [][NextView]_vars
\* concurrent refresh requests over the one raw dataset file
InitRaw ==
    /\ ApiInit /\ serving = InitialDir /\ ConnIdle /\ FetchIdle /\ ModelIdle
    /\ ViewIdle /\ RawInit /\ FeedIdle
NextRaw ==
    RawNext /\ UNCHANGED <<apiVars, connVars, fetchVars, modelVars, viewVars, feedVars>>
SpecRaw == InitRaw /\ [][NextRaw]_vars
\* the same incremental run with and without early stop
InitFeed ==
    /\ ApiInit /\ serving = InitialDir /\ FeedInit /\ FetchIdle /\ ModelIdle
    /\ ViewIdle /\ RawIdle
NextFeed == FeedNext /\ UNCHANGED <<apiVars, fetchVars, modelVars, viewVars, rawVars>>
SpecFeed == InitFeed /\ [][NextFeed]_vars

(* ======================= claims about the serving API =================== *)
\* positions inside a with app.state.lock block
ReadSection == {"r_read"}
SwapSection == {"s_ren2", "s_rollback", "s_inval"}
Uniform(view) == \A i \in 1..Len(view) : view[i] = view[1]
\* a GET /data thread sends its response in this step
ReadAnswers(p) == pc[p] \in {"r_wait", "r_read"} /\ pc'[p] = "idle"

Ended(i) == i <= nref /\ \A f \in Refreshers : rf[f].id # i

\* C3 (as claimed): once a refresh request has ended, in success or failure,
\* neither its staging directory nor its backup directory remains.
C3_NoSiblingsRemain ==
    \A i \in 1..MaxRefreshes : Ended(i) => (~tmp[i].ex /\ ~bak[i].ex)

\* C4: a refresh that holds a completed swap still holds the lock, leaves the
\* guarded section with the cache slot empty, and every read answered 200
\* returns the content of the directory then at the serving path, whatever
\* the mtimes of its files.
C4_SwapInvalidatesCache ==
    [][/\ \A f \in Refreshers : pc[f] = "s_inval" => lock = f
       /\ \A f \in Refreshers : (pc[f] = "s_inval" /\ pc'[f] = "idle") =>
              (~cache'.full /\ lock' = Free)
       /\ \A p \in Readers : (ReadAnswers(p) /\ resp'.res = "ok") =>
              resp'.view = Contents(serving)]_vars
\* a read has reloaded and returned the content of the snapshot installed by
\* the last swap, whose files carry the mtimes of the files they replaced
C4_Witness ==
    /\ sameMt /\ lastSwap > 0 /\ serving.by = lastSwap
    /\ resp = ReadResp("ok", TRUE, Contents(serving))

\* C5: with the modeled files present, a read goes on to read the files
\* exactly when the cache slot is empty or some file's mtime differs from the
\* cached one; otherwise it reads nothing, leaves the cache alone and answers
\* from the cached view; a reload reads three files and replaces the slot by
\* the view and the mtimes it found.
C5_ReloadIffStale ==
    [][\A p \in Readers :
          /\ (pc[p] = "r_wait" /\ pc'[p] # "r_wait" /\ serving.ex) =>
                LET stale == ~cache.full
                             \/ \E i \in 1..NFiles : cache.mtimes[i] # serving.mt[i]
                IN  /\ stale <=> pc'[p] = "r_read"
                    /\ ~stale => /\ resp' = ReadResp("ok", FALSE, cache.view)
                                 /\ cache' = cache
                                 /\ rd'[p] = <<>>
          /\ (pc[p] = "r_read" /\ pc'[p] = "idle" /\ resp'.res = "ok") =>
                /\ Len(rd[p]) = NFiles - 1
                /\ resp'.reloaded
                /\ cache' = [full |-> TRUE, mtimes |-> serving.mt,
                             view |-> resp'.view]]_vars
\* a read is reloading although the cache slot holds a view: the mtime of the
\* first file alone differs from the cached fingerprint
C5_Witness ==
    \E p \in Readers :
        /\ pc[p] = "r_read" /\ cache.full
        /\ cache.mtimes[1] # serving.mt[1]
        /\ cache.mtimes[2] = serving.mt[2] /\ cache.mtimes[3] = serving.mt[3]

\* C6: no step of a refresh before its swap changes the serving directory or
\* the cache slot, and when the model builder raises the request ends with a
\* 500, its staging directory gone.
C6_StagingFailureFrame ==
    [][\A f \in Refreshers :
          /\ (pc[f] \in {"idle", "staging"} /\ pc'[f] # pc[f]) =>
                (serving' = serving /\ cache' = cache)
          /\ (pc[f] = "staging" /\ pc'[f] = "idle" /\ resp'.err = "Build") =>
                (~tmp'[rf[f].id].ex /\ resp' = RefreshResp("500", "Build"))]_vars
\* a staging build has failed while a serving directory and a cached view exist
C6_Witness ==
    /\ resp = RefreshResp("500", "Build")
    /\ serving.ex /\ cache.full
    /\ \A i \in 1..MaxRefreshes : ~tmp[i].ex

\* C7: a refresh in run_refresh_build_tmp does not hold the lock; a refresh
\* holds it exactly from its first rename to its cache invalidation; a read
\* waiting for the lock can enter whenever no request is inside a guarded
\* section, whatever refreshes are staging.
C7_StagingOutsideLock ==
    /\ \A f \in Refreshers : (pc[f] \in SwapSection) <=> (lock = f)
    /\ \A p \in Readers :
          (/\ pc[p] = "r_wait"
           /\ \A q \in Readers : pc[q] \notin ReadSection
           /\ \A f \in Refreshers : pc[f] \notin SwapSection)
          => ENABLED ReadEnter(p)
\* a read is inside the guarded section, reading the old snapshot, while a
\* refresh is staging
C7_Witness ==
    \E p \in Readers, f \in Refreshers :
        /\ pc[f] = "staging" /\ pc[p] = "r_read" /\ lock = p
        /\ rd[p] = <<0>> /\ serving.by = 0

\* C8: at most one request thread is inside a guarded section, and it is the
\* holder of the lock.
C8_MutualExclusion ==
    /\ Cardinality({p \in Readers : pc[p] \in ReadSection}
                   \cup {f \in Refreshers : pc[f] \in SwapSection}) <= 1
    /\ \A p \in Readers : pc[p] \in ReadSection => lock = p
    /\ \A f \in Refreshers : pc[f] \in SwapSection => lock = f
\* one refresh is between its two renames while the other refresh and a read
\* wait for the lock
C8_Witness ==
    \E f \in Refreshers, g \in Refreshers, p \in Readers :
        pc[f] = "s_ren2" /\ pc[g] = "s_wait" /\ pc[p] = "r_wait"

NoDuplicateKeys(df) ==
    \A i, j \in 1..Len(df) : row_key(df[i]) = row_key(df[j]) => i = j

\* C10: the dataset an incremental run writes, the prior dataset merged with
\* the newly fetched rows, has no two rows with the same (period, facility,
\* generator) key, whatever the prior dataset and the pages fetched.
C10_MergedOutputHasUniqueKeys ==
    wrote = "merged" => NoDuplicateKeys(output.rows)
\* a merge was written in a run whose prior dataset repeated a key and whose
\* pages brought one new key twice, with different payloads
C10_Witness ==
    /\ wrote = "merged"
    /\ ~NoDuplicateKeys(existing_df.rows)
    /\ ~NoDuplicateKeys(new_records)
    /\ \E i \in 1..Len(new_records) : new_records[i].val # new_records[1].val
    /\ Len(output.rows) > 1

\* the frame the incremental write produces from the rows collected so far
MergedFrame == drop_duplicates(existing_df.rows \o Validate(new_records))
\* the prior dataset has the key of r, with another payload only
PriorDiffers(r) ==
    /\ \E i \in 1..Len(existing_df.rows) : row_key(existing_df.rows[i]) = row_key(r)
    /\ \A i \in 1..Len(existing_df.rows) :
          row_key(existing_df.rows[i]) = row_key(r) => existing_df.rows[i].val # r.val

\* C11 (as claimed): when an incremental page brings a row whose key the prior
\* dataset has with another payload, and the run has new rows to write, the
\* merged dataset carries the fetched row for that key.
C11_NewValueWins ==
    [][\A records \in Pages :
          PageIncremental(records) =>
              \A i \in 1..Len(PageFrame(records)) :
                  (/\ PriorDiffers(PageFrame(records)[i])
                   /\ IsLast(PageFrame(records), i)
                   /\ new_records' # <<>>)
                  => \E j \in 1..Len(MergedFrame') :
                        MergedFrame'[j] = PageFrame(records)[i]]_vars

\* C12: an incremental run that reaches the end of pagination with no new
\* record ends without writing: the raw file is exactly what it was.
C12_NoNewRecordsNoWrite ==
    [][(cpc = "post" /\ incremental_active /\ new_records = <<>> /\ cpc' # cpc)
          => (cpc' = "done" /\ output' = output /\ wrote' = "none")]_vars
\* such a run has ended after fetching a page of known rows, and the prior file
\* differs from the frame loaded from it (its periods carry a time of day)
C12_Witness ==
    /\ cpc = "done" /\ incremental_active /\ new_records = <<>>
    /\ stop \in {"early", "short"}
    /\ wrote = "none"
    /\ output.ex /\ output.rows # existing_df.rows

\* C13 (as claimed): a run of the packaged runner whose collected records are
\* all dropped by validation, or that collected nothing, ends without writing:
\* the raw file is neither created nor overwritten.
C13_EmptyAfterValidationNoWrite ==
    [][(/\ settings.entry = "runner"
        /\ cpc = "post" /\ cpc' = "done"
        /\ Validate(Collected) = <<>>)
          => (output' = output /\ wrote' = "none")]_vars

\* the latest date among the parseable periods of a page (0 when there is none)
PageMaxDate(records) ==
    Max({0} \cup {safe_period_to_datetime(records[i].period)[1] : i \in 1..Len(records)})
\* the page brings a key that is not known yet
BringsNewKey(records) ==
    \E i \in 1..Len(records) :
        /\ safe_period_to_datetime(records[i].period) # NaT
        /\ row_key(Converted(records[i])) \notin existing_keys

\* C14: an incremental page stops pagination early exactly when early-stop is
\* enabled, a high-water mark exists, the page has a row with a valid period,
\* the latest period of the page is not after the mark, and no row of the page
\* is new; an early stop happens only in incremental mode, adds no record, and
\* is followed by no further page request.
C14_EarlyStopExactly ==
    [][/\ \A records \in PagesOf(upstream) :
            PageIncremental(records) =>
                (stop' = "early" <=>
                    (/\ settings.early_stop_on_old_period
                     /\ existing_max_period # 0
                     /\ PageMaxDate(records) # 0
                     /\ PageMaxDate(records) <= existing_max_period
                     /\ ~BringsNewKey(records)))
       /\ (stop' = "early" /\ stop # "early")
             => (incremental_active /\ cpc' = "post" /\ new_records' = new_records)
       /\ stop = "early" => nreq' = nreq]_vars
\* a run stopped early on its second page, after a first page that brought a
\* row later than the mark, and wrote the merge
C14_Witness ==
    /\ stop = "early" /\ cpc = "done" /\ nreq = 2
    /\ wrote = "merged"
    /\ \E i \in 1..Len(new_records) : new_records[i].period[1] > existing_max_period

\* C15 (as claimed): when pagination stops on the record cap, the records
\* retained for validation and writing number exactly the cap, in full mode, in
\* incremental mode and after a fall-back from incremental to full mode.
C15_CapKeepsExactlyTheCap ==
    (stop = "cap" /\ settings.max_records > 0)
        => Len(Collected) = settings.max_records

\* C16 (as claimed): with a record cap of 0, in the packaged runner and in the
\* legacy script alike, no page stops pagination on the cap and no record of a
\* page is trimmed.
C16_ZeroDisablesTheCap ==
    [][settings.max_records = 0 =>
          /\ stop' # "cap"
          /\ \A records \in PagesOf(upstream) :
                (PageFull(records) \/ PageLegacy(records))
                    => all_records' = all_records \o records]_vars

\* C17: the k-th page request of a run (k = 0, 1, ...) uses offset k * page
\* size; a page with fewer records than the page size ends pagination, its
\* records being accumulated first; an empty or missing page ends pagination;
\* and no page is requested once pagination has stopped.
C17_OffsetsAndStops ==
    [][/\ nreq' # nreq
            => (nreq' = nreq + 1 /\ cpc = "loop" /\ current_offset = nreq * max_limit)
       /\ cpc' = "loop"
            => \A records \in PagesOf(upstream) :
                  Len(records) < max_limit
                      => ~(\/ PageFull(records)
                           \/ PageFallback(records)
                           \/ PageIncremental(records))
       /\ stop' = "short"
            => \A records \in PagesOf(upstream) :
                  /\ PageFull(records) => all_records' = all_records \o records
                  /\ PageIncremental(records)
                        => new_records' = new_records \o PageNew(records)
       /\ stop' \in {"missing", "empty"} => cpc' \in {"post", "done"}
       /\ stop # "none" => nreq' = nreq]_vars
\* a run ended on its second page, a short one, requested at offset one page
\* size, and wrote what it had collected
C17_Witness ==
    /\ stop = "short" /\ nreq = 2 /\ current_offset = 2 * max_limit
    /\ cpc = "done" /\ wrote # "none"

\* C18: when a page fetch raises the auth error the run ends there: the error
\* leaves run_connector, no further page is requested, nothing is written and
\* the raw file is what it was, whatever earlier pages had accumulated.
C18_AuthErrorEndsTheRun ==
    [][/\ (stop # "PermissionError" /\ stop' = "PermissionError")
            => (cpc' = "raised" /\ output' = output /\ wrote' = "none")
       /\ stop = "PermissionError"
            => (nreq' = nreq /\ output' = output /\ wrote' = wrote /\ cpc' = cpc)]_vars
\* the auth error came on the second request, after a full page was
\* accumulated, with a prior file on disk
C18_Witness ==
    /\ stop = "PermissionError" /\ cpc = "raised"
    /\ nreq = 2 /\ Len(all_records) = max_limit
    /\ output.ex /\ wrote = "none"

\* what the post-loop code writes from the records collected
Written ==
    IF incremental_active /\ existing_df.some
    THEN drop_duplicates(existing_df.rows \o Validate(Collected))
    ELSE Validate(Collected)

\* C19: a skipped page (the fetch gave up after its retries) ends pagination
\* without failing the run: the records collected so far are kept, and the
\* post-loop code validates and writes them.
C19_SkippedPageStillWrites ==
    /\ []((stop = "missing" /\ cpc = "post" /\ Collected # <<>>)
             => ENABLED (FinishMerge \/ FinishPlain))
    /\ [][/\ (stop = "none" /\ stop' = "missing")
               => (/\ cpc' = "post"
                   /\ all_records' = all_records
                   /\ new_records' = new_records
                   /\ output' = output)
          /\ (stop = "missing" /\ cpc = "post" /\ Collected # <<>> /\ cpc' # cpc)
               => (cpc' = "done" /\ wrote' # "none" /\ output' = File(Written))]_vars
\* the second request was skipped and the full page collected before it was
\* written
C19_Witness ==
    /\ stop = "missing" /\ cpc = "done" /\ nreq = 2
    /\ wrote = "plain" /\ Len(output.rows) = max_limit

\* C20 (as claimed): a refresh that fails because the upstream API key is
\* absent (the connector exits) or rejected (the page fetch raises
\* PermissionError) is answered with HTTP 400.
C20_KeyErrorsAnswer400 ==
    (resp.kind = "refresh" /\ resp.err \in {"RuntimeError", "PermissionError"})
        => resp.res = "400"


(* ======================= claims about the page fetcher ================= *)
\* C21: a 401 or 403 response ends the call at once with the auth error: the
\* request that got it is the last one, no earlier attempt of the call was an
\* auth response that was retried, and when it answers the first request
\* the call has made exactly one request and has not slept, whatever
\* max_retries is.
C21_AuthErrorIsImmediate ==
    fret = "PermissionError" =>
        /\ calls = Len(fails) + 1
        /\ \A i \in 1..Len(fails) : fails[i] # "auth"
        /\ fails = <<>> => (calls = 1 /\ sleeps = <<>>)
        /\ ~ ENABLED FetchNext
C21_Witness ==
    /\ fret = "PermissionError"
    /\ calls = 1
    /\ fsettings.max_retries = 3

\* C22: a call that ends with None has made exactly max_retries requests,
\* all of them failed; a call that ends with a page has made exactly k
\* requests, k <= max_retries, of which the first k - 1 failed.
C22_RequestsBeforeReturn ==
    /\ fret = "None" =>
          (calls = fsettings.max_retries /\ Len(fails) = fsettings.max_retries)
    /\ fret = "page" =>
          (calls = Len(fails) + 1 /\ calls <= fsettings.max_retries)
C22_Witness ==
    /\ fret = "None"
    /\ calls = 3
    /\ \E i, j \in 1..Len(fails) : fails[i] = "http" /\ fails[j] = "net"

\* C23: every failed attempt a that was followed by another request was
\* followed by a sleep of retry_delay * 2^(a-1), whether it failed with an
\* HTTP error or with a network error.
C23_BackoffBeforeEveryRetry ==
    \A a \in 1..Len(fails) :
        calls > a =>
            \E i \in 1..Len(sleeps) :
                sleeps[i] = [after |-> a,
                             delay |-> fsettings.retry_delay * Pow2(a - 1)]


(* =================== claims about the star-schema builder ============== *)
\* the calendar days of the raw rows of the plant with surrogate key p
PlantRows(p) ==
    {i \in 1..Len(df_raw) :
        /\ df_raw[i].facility = modeled.dim_plant[p].EIA_FacilityID
        /\ df_raw[i].generator = modeled.dim_plant[p].Generator}
PlantDays(p) == {df_raw[i].period[1] : i \in PlantRows(p)}
FactOf(p) ==
    {i \in 1..Len(modeled.fact_outage) : modeled.fact_outage[i].PlantKey = p}
Min(S) == CHOOSE x \in S : \A y \in S : x <= y
\* d and e are neighbours among the days of D
Neighbours(D, d, e) == d \in D /\ e \in D /\ d < e /\ \A x \in D : ~(d < x /\ x < e)
\* fact row i covers day d
Covers(i, d) ==
    /\ modeled.fact_outage[i].OutageStartTimestamp[1] <= d
    /\ d < modeled.fact_outage[i].OutageEndTimestamp[1]

\* C24: after a build, two neighbouring raw dates of a plant lie in one
\* event exactly when they are 1 day apart; the plant has one event less
\* than raw rows for every pair of neighbouring dates 1 day apart; and a
\* plant whose raw rows have distinct dates without a gap has exactly one
\* event, from the minimum date to the day after the maximum date.
C24_EventsSplitAtGaps ==
    mstatus = "ok" =>
        \A p \in 1..Len(modeled.dim_plant) :
            LET D == PlantDays(p)
                joined == {<<d, e>> \in D \X D : Neighbours(D, d, e) /\ e - d = 1}
            IN  /\ \A d, e \in D :
                       Neighbours(D, d, e) =>
                          ((e - d = 1) <=>
                              \E i \in FactOf(p) : Covers(i, d) /\ Covers(i, e))
                /\ Cardinality(FactOf(p)) = Cardinality(PlantRows(p)) - Cardinality(joined)
                /\ (/\ Cardinality(PlantRows(p)) = Cardinality(D)
                    /\ \A d, e \in D : Neighbours(D, d, e) => e - d = 1)
                   => \E i \in FactOf(p) :
                          /\ FactOf(p) = {i}
                          /\ modeled.fact_outage[i].OutageStartTimestamp
                                = <<Min(D), 0>>
                          /\ modeled.fact_outage[i].OutageEndTimestamp
                                = <<Max(D) + 1, 0>>
C24_Witness ==
    /\ mstatus = "ok"
    /\ \E p, q \in 1..Len(modeled.dim_plant) :
          /\ PlantDays(p) = {1, 3} /\ Cardinality(FactOf(p)) = 2
          /\ PlantDays(q) = {2} /\ Cardinality(FactOf(q)) = 1

\* C25: after a build, of two fact rows of one plant the later row starts
\* at or after the exclusive end of the earlier row, and strictly after its
\* start.
C25_EventsDoNotOverlap ==
    mstatus = "ok" =>
        \A i, j \in 1..Len(modeled.fact_outage) :
            (i < j /\ modeled.fact_outage[i].PlantKey = modeled.fact_outage[j].PlantKey)
            => /\ modeled.fact_outage[i].OutageEndTimestamp[1]
                    <= modeled.fact_outage[j].OutageStartTimestamp[1]
               /\ modeled.fact_outage[i].OutageStartTimestamp[1]
                    < modeled.fact_outage[j].OutageStartTimestamp[1]

\* C26: after a build, no two fact rows carry the same EIA_OutageID.
C26_OutageIdIsUnique ==
    mstatus = "ok" =>
        \A i, j \in 1..Len(modeled.fact_outage) :
            modeled.fact_outage[i].EIA_OutageID = modeled.fact_outage[j].EIA_OutageID
            => i = j

\* C27: after a build, every fact row ends at midnight of the day after
\* the last of a run of consecutive raw dates of its plant that begins at
\* its start, and its duration is 24 hours for each day of that run: 24
\* hours for a run of a single day.
C27_EndAndDuration ==
    mstatus = "ok" =>
        \A i \in 1..Len(modeled.fact_outage) :
            LET row == modeled.fact_outage[i]
                first == row.OutageStartTimestamp[1]
                last == row.OutageEndTimestamp[1] - 1
            IN  /\ row.OutageEndTimestamp[2] = 0
                /\ first <= last
                /\ \A d \in first..last : d \in PlantDays(row.PlantKey)
                /\ row.OutageDurationHours = 24 * Cardinality(first..last)
                /\ first = last => row.OutageDurationHours = 24
C27_Witness ==
    /\ mstatus = "ok"
    /\ \E i, j \in 1..Len(modeled.fact_outage) :
          /\ modeled.fact_outage[i].OutageDurationHours = 24
          /\ modeled.fact_outage[j].OutageDurationHours = 48

\* C28: once a build has run, the DimPlant table build_dim_plant makes of
\* the raw dataset has no two rows with the same facility and generator.
C28_PlantIsUnique ==
    (mstatus # "none" /\ raw_columns = expected) =>
        LET dim_plant == build_dim_plant(Normalised(df_raw))
        IN  \A i, j \in 1..Len(dim_plant) :
                (/\ dim_plant[i].EIA_FacilityID = dim_plant[j].EIA_FacilityID
                 /\ dim_plant[i].Generator = dim_plant[j].Generator)
                => i = j

\* C29: after a build, the PlantKey of the i-th DimPlant row is i and the
\* rows are in increasing (facility, generator) order; the OutageKey of the
\* i-th fact row is i and the rows are in (PlantKey, start date) order.
C29_SurrogateKeysAreDense ==
    mstatus = "ok" =>
        /\ \A i \in 1..Len(modeled.dim_plant) : modeled.dim_plant[i].PlantKey = i
        /\ \A i, j \in 1..Len(modeled.dim_plant) :
              i < j => PlantBefore(modeled.dim_plant[i], modeled.dim_plant[j])
        /\ \A i \in 1..Len(modeled.fact_outage) : modeled.fact_outage[i].OutageKey = i
        /\ \A i, j \in 1..Len(modeled.fact_outage) :
              i < j =>
                 \/ modeled.fact_outage[i].PlantKey < modeled.fact_outage[j].PlantKey
                 \/ /\ modeled.fact_outage[i].PlantKey = modeled.fact_outage[j].PlantKey
                    /\ modeled.fact_outage[i].OutageStartTimestamp[1]
                          <= modeled.fact_outage[j].OutageStartTimestamp[1]
C29_Witness ==
    /\ mstatus = "ok"
    /\ Len(modeled.dim_plant) = 2
    /\ modeled.dim_plant[1].EIA_FacilityID = <<2, 0, 4>>
    /\ df_raw[1].facility = <<4, 6>>
    /\ Len(modeled.fact_outage) = 3

C34_ServingNeverLost ==
    (served /\ \A f \in Refreshers : pc[f] \notin SwapSection) => serving.ex

\* the keys of the rows of a raw file, as load_existing_state reads them
FileKeys(file) == {row_key(Converted(file.rows[i])) : i \in 1..Len(file.rows)}

\* C37 (as claimed): when a run that loaded a prior dataset in incremental
\* mode has ended, every key of the prior dataset is a key of the output
\* file.
C37_PriorKeysSurvive ==
    (cpc = "done" /\ existing_df.some) =>
        \A i \in 1..Len(existing_df.rows) :
            row_key(existing_df.rows[i]) \in FileKeys(output)

\* C38 (as claimed): with a record cap greater than 0, every iteration of the
\* pagination loop that goes on to another page request has raised the count
\* the cap is tested against, so that the loop halts within a number of
\* requests the cap bounds, whatever pages the upstream returns.
C38_EveryPageNearsTheCap ==
    [][(settings.max_records > 0 /\ cpc = "loop" /\ cpc' = "loop")
          => Len(all_records') + Len(new_records')
                > Len(all_records) + Len(new_records)]_vars


\* C40: under fair scheduling of the request threads, a thread that holds
\* the mutex releases it, whichever way it leaves its guarded section; a read
\* or a refresh waiting for the mutex gets past its with statement; and in no
\* state is a request in progress while no request thread can take a step.
C40_MutexAlwaysReleased ==
    /\ (lock # Free) ~> (lock = Free)
    /\ \A t \in Readers \cup Refreshers :
          (pc[t] \in {"r_wait", "s_wait"}) ~> (pc[t] \notin {"r_wait", "s_wait"})
    /\ []((\E t \in Readers \cup Refreshers : pc[t] # "idle")
            => \E p \in Readers, f \in Refreshers :
                  ENABLED (ReadStep(p) \/ RefreshStep(f)))
\* a read and a refresh wait for the mutex while a swap whose second rename
\* failed is about to roll back
C40_Witness ==
    \E p \in Readers, f, g \in Refreshers :
        /\ pc[p] = "r_wait" /\ pc[f] = "s_wait"
        /\ pc[g] = "s_rollback" /\ lock = g


\* C31: a build of a raw dataset that lacks some of the columns period,
\* facility, facilityName, generator ends with a ValueError that names
\* exactly the missing columns; modeled_dir has not been created, no modeled
\* table has been written and the serving directory is as it was.
C31_MissingColumnsAbortBeforeWrite ==
    [][(expected \ raw_columns # {} /\ nbuild' = nbuild + 1)
          => /\ mstatus' = "ValueError"
             /\ merror' = expected \ raw_columns
             /\ ~mdir'
             /\ modeled' = NoTables
             /\ serving' = serving]_vars
C31_Witness ==
    /\ mstatus = "ValueError"
    /\ merror = {"facilityName", "generator"}
    /\ raw_columns = {"period", "facility"}
    /\ ~mdir /\ modeled = NoTables

(* ==================== claims about the GET /data result ================= *)
\* a fact row of the directory has more than one plant row or date row
Ambiguous(dir) ==
    \E i \in 1..Len(dir.fact_outage) :
        \/ Cardinality({k \in 1..Len(dir.dim_plant) :
               dir.dim_plant[k].PlantKey = dir.fact_outage[i].PlantKey}) > 1
        \/ Cardinality({k \in 1..Len(dir.dim_date) :
               dir.dim_date[k].DateKey = dir.fact_outage[i].DateKey}) > 1

\* C32: a view that enters the cache has exactly one row per fact row, in fact
\* order; a GET /data that has to reload while a fact row matches more than
\* one plant row or date row answers with the error and no rows and leaves the
\* cache slot as it was; no successful response carries a fact row twice.
C32_ViewHasOneRowPerFact ==
    [][/\ vcache' # vcache =>
             /\ vcache'.full
             /\ Len(vcache'.view) = Len(vdir.fact_outage)
             /\ \A i \in 1..Len(vcache'.view) :
                   vcache'.view[i].OutageKey = vdir.fact_outage[i].OutageKey
       /\ (vresp' # vresp /\ view_stale /\ Ambiguous(vdir)) =>
             /\ vresp'.status = 500
             /\ vresp'.data = <<>>
             /\ vcache' = vcache
       /\ vresp'.status = 200 =>
             \A j, k \in 1..Len(vresp'.data) :
                 vresp'.data[j].OutageKey = vresp'.data[k].OutageKey => j = k]_vars
\* a reload failed on a rewritten plant table while the cache holds the view
\* of an earlier load
C32_Witness ==
    /\ vresp.status = 500
    /\ vcache.full /\ Len(vcache.view) >= 2 /\ vcache.mt < vdir.mt
    /\ Ambiguous(vdir)
    /\ ~unique_PlantKey(vdir.dim_plant)

\* the rows of the cached view that pass the filters of the request
Matching ==
    {i \in 1..Len(vcache.view) :
        vreq.plant_key # <<>> => vcache.view[i].PlantKey = vreq.plant_key[1]}
\* a comes before b: later start first, then smaller plant key
Earlier(a, b) ==
    \/ a.OutageStartTimestamp[1] > b.OutageStartTimestamp[1]
    \/ (a.OutageStartTimestamp[1] = b.OutageStartTimestamp[1] /\ a.PlantKey < b.PlantKey)
\* C33: a successful GET /data for page p and page size L reports as total the
\* number of matching rows, and returns the rows at positions (p-1)*L+1 ..
\* min(p*L, total) of the matching rows ordered by start descending, then plant
\* key ascending; the pages 1..ceil(total/L) hold every matching row exactly
\* once, and a page past the end is empty.
C33_PagesPartitionTheResult ==
    vresp.status = 200 =>
        LET p == vreq.page
            L == vreq.limit
            total == Cardinality(Matching)
            first == (p - 1) * L + 1
            last == IF p * L < total THEN p * L ELSE total
            npages == (total + L - 1) \div L
            result == sort_view(apply_filters(vcache.view, vreq.plant_key))
            PageOf(q) == paginate(result, q, L).data
            keys == [q \in 1..npages |->
                        [k \in 1..Len(PageOf(q)) |-> PageOf(q)[k].OutageKey]]
        IN  /\ vresp.total = total
            /\ Len(vresp.data) = (IF last >= first THEN last - first + 1 ELSE 0)
            /\ \A k \in 1..Len(vresp.data) :
                  LET r == vresp.data[k]
                      g == first + k - 1
                  IN  /\ \E i \in Matching : vcache.view[i] = r
                      /\ Cardinality({i \in Matching : Earlier(vcache.view[i], r)}) < g
                      /\ Cardinality({i \in Matching : ~Earlier(r, vcache.view[i])}) >= g
            /\ vresp.data = PageOf(p)
            /\ \A i \in Matching :
                  Cardinality({qk \in (1..npages) \X (1..L) :
                      /\ qk[2] <= Len(keys[qk[1]])
                      /\ keys[qk[1]][qk[2]] = vcache.view[i].OutageKey}) = 1
            /\ p > npages => vresp.data = <<>>
\* the second and last page of three matching rows, two of them with the same
\* start and plant
C33_Witness ==
    /\ vresp.status = 200 /\ vreq.page = 2 /\ vreq.limit = 2
    /\ vreq.plant_key = <<1>> /\ vresp.total = 3 /\ Len(vresp.data) = 1
    /\ Len(vcache.view) = 3
    /\ \E i, j \in 1..3 : i # j /\ ~Earlier(vcache.view[i], vcache.view[j])
                              /\ ~Earlier(vcache.view[j], vcache.view[i])

(* ============== claims about the raw dataset of a refresh =============== *)
\* C35: in every interleaving of two refresh requests, no builder reads the
\* raw dataset file while another request's extraction is writing it, and no
\* two extractions write it at the same time.
C35_RawFileIsNotShared ==
    /\ Cardinality(rwriters) <= 1
    /\ \A f \in rreaders : rwriters \subseteq {f}

\* C36: once every refresh request has completed and one of them swapped, the
\* serving directory is built from the raw dataset as it was written last.
C36_ServingIsTheLastExtraction ==
    ((\A f \in Refreshers : rpc[f] \in {"idle", "done"}) /\ rserving # 0)
        => rserving = rawfile

\* C39: against an upstream that serves the most recent periods first, an
\* incremental run with early stop leaves the same set of keys in the raw file
\* as the same run with early stop disabled, also when the prior file holds
\* only the first rows of the feed.
C39_EarlyStopSkipsNothing ==
    (run = 2 /\ cpc = "done") => FileKeys(output) = FileKeys(first_output)

====
